---- MODULE Spec2Model ----
(***************************************************************************)
(* lightvis: the window registries, the LightVis life cycle and the        *)
(* multi-window main loop of LightVisDetail::main (src/unnamed/part_001,   *)
(* the newest of the versions kept in the repository).                     *)
(*                                                                         *)
(* A LightVis object is identified by its address: std::set<LightVis *>    *)
(* and std::map<GLFWwindow *, LightVis *> iterate in pointer order, so     *)
(* addresses and native handles are modelled as small integers.            *)
(***************************************************************************)
EXTENDS Integers, Sequences, FiniteSets, TLC

\* ---------------------------------------------------------------- bounds
NumVis == 2
NumHandles == 2
NumData == 1
MaxRecords == 2
MaxPolled == 2      \* callbacks one glfwPollEvents delivers
MaxFrames == 2      \* loop iterations a run with mouse input goes on for
MaxPoints == 2      \* elements a user vector of points or colours holds at most
MaxInputFrames == 1 \* loop iterations a run with every kind of input goes on for
MaxTyped == 18      \* code points one glfwPollEvents delivers to a window typed into

Vis == 1..NumVis            \* addresses a LightVis object can live at
Handles == 1..NumHandles    \* GLFWwindow * values glfwCreateWindow can return
DataRefs == 1..NumData      \* user vectors / colours passed by reference
NULL == 0

VARIABLES
    obj,                \* per address: "none" | "alive" | "dead" (destroyed, storage stale)
    window,             \* detail->context.window (NULL or a handle)
    program,            \* detail->context.program: "none" | "ok" | "bad" (failed to build)
    shaders,            \* grid_shader / position_shader are loaded
    position_records,   \* detail->position_records
    awaiting,           \* awaiting_windows()
    active,             \* active_windows(): handle -> address, NULL when no entry
    native,             \* native windows GLFW currently holds
    should_close,       \* native windows whose close flag is set
    pc,                 \* where the process is
    it,                 \* the running range-for's current key
    cur,                \* the frame loop's `vis`
    step,               \* per-frame steps already performed on cur
    closing,            \* the close phase's `closing` vector
    ret,                \* what main() returned
    \* history of what the code did, read by the properties only
    trace,              \* per-frame steps performed since the last glfwPollEvents
    draws,              \* draw(w, h) invocations per address since the last glfwPollEvents
    ev,                 \* the last library operation and the hooks it invoked
    failed,             \* create_window failed and show() was not called since
    retried,            \* create_window was invoked on an address with failed set
    ever_shown,         \* show() was called at least once
    shown_since_close,  \* show() was called since the last close inspection
    all_closing,        \* the last close inspection found every active window closing
    body_ran,           \* the loop body ran in the current call of main()
    creates,            \* create_window calls per address in the running spawn phase
    spawning,           \* the awaiting set as the running spawn phase found it
    loaded,             \* the load() override of a live object ran, its unload() override not yet
    inspected,          \* what the last close inspection found: closing / open windows
    \* input and camera
    viewport,           \* detail->viewport: viewport_ypr, viewport_distance, world_xyz, scale
    events,             \* detail->events
    mouse_states,       \* detail->mouse_states
    last_ypr,           \* the function-local `static Eigen::Vector3f last_ypr`
    now,                \* glfwGetTime(), in hundredths of a second
    polled,             \* callbacks delivered by the running glfwPollEvents
    pe,                 \* history: the last process_events, its inputs and what nuklear got
    anchor,             \* history: per window, cursor and angles when its camera last ran button-free
    quiet,              \* history: per window, cursor and angles at its last button-free frame
    frames,             \* loop iterations run with input
    \* drawing
    points,             \* user memory: the size of each std::vector<Eigen::Vector3f>
    palette,            \* user memory: each std::vector<Eigen::Vector4f>
    grid_lines,         \* the function-local `static std::vector<Eigen::Vector3f> grid_lines`
    colors,             \* the function-local `static std::vector<Eigen::Vector4f> colors`
    gl,                 \* history: what the last draw_grid / draw_positions handed to OpenGL
    \* create_window / destroy_window statement by statement
    callbacks,          \* native windows that have the four GLFW callbacks installed
    cw,                 \* the running create_window / destroy_window and its next statement
    \* mouse buttons
    clicks              \* history: per object, the left presses seen by mouse_input_callback

objv == <<obj, window, program, shaders, position_records>>
regv == <<awaiting, active, native, should_close>>
loopv == <<pc, it, cur, step, closing, ret>>
histv == <<trace, draws, ev, failed, retried, ever_shown, shown_since_close,
           all_closing, body_ran>>
lifev == <<creates, spawning, loaded, inspected>>
inputv == <<viewport, events, mouse_states, last_ypr, now, polled, pe, anchor, quiet,
            frames>>
canvasv == <<points, palette, grid_lines, colors, gl>>
cbv == <<callbacks, cw>>
vars == <<objv, regv, loopv, histv, lifev, inputv, canvasv, cbv, clicks>>

\* ---------------------------------------------------------------- helpers
Min(S) == CHOOSE x \in S : \A y \in S : x <= y

ActiveKeys == {h \in Handles : active[h] # NULL}
ActiveVis == {active[h] : h \in ActiveKeys}

NoEvent == [op |-> "none", vis |-> NULL, hooks |-> <<>>, args |-> <<>>]
Event(o, v, hs) == [op |-> o, vis |-> v, hooks |-> hs, args |-> <<>>]
Call(o, v, as) == [op |-> o, vis |-> v, hooks |-> <<>>, args |-> as]

\* The process is not inside main(): before the call or after it returned.
OutsideMain == pc \in {"idle", "returned"}
\* User code is running: outside main(), or inside the gui() override.
UserCode == OutsideMain \/ pc = "gui"

\* The objects a hook's user code calls show() on; show() acts on the ones
\* without a native window (part_001:416-420).
ShowTargets(S, win) == {s \in S : obj[s] = "alive" /\ win[s] = NULL}
Callable(S) == {s \in S : obj[s] = "alive"}

\* ------------------------------------------------ input and camera data
\* Angles are kept in tenths of a degree (a drag of one pixel turns the view
\* by a tenth of a degree), the scale in units of 1.0e-4 and time in
\* hundredths of a second.
AngleUnit == 10
ScaleUnit == 10000
TimeUnit == 100

\* A float or double that holds a scale: a number of scale units, the float
\* nearest to 1.0e-4 (9.99999975e-05, just below it), an infinity or a NaN.
Num(n) == [k |-> "num", v |-> n]
FloatBelowMin == [k |-> "below", v |-> 1]
PosInf == [k |-> "inf", v |-> 1]
NegInf == [k |-> "inf", v |-> 0 - 1]
NaN == [k |-> "nan", v |-> 0]

\* viewport_t as its member initialisers leave it.
DefaultViewport ==
    [viewport_ypr |-> <<(0 - 45) * AngleUnit, (0 - 42) * AngleUnit, 0>>,
     viewport_distance |-> 15,
     world_xyz |-> <<0, 0, 0>>,
     scale |-> Num(ScaleUnit)]

\* -std::numeric_limits<double>::max(): further back than any time difference.
LongAgo == 0 - 1000000 * TimeUnit

\* events_t as its member initialisers and value-initialisation leave it.
DefaultEvents ==
    [characters |-> <<>>,
     scroll_offset |-> <<0, 0>>,
     double_click |-> FALSE,
     double_click_position |-> <<0, 0>>,
     last_left_click_time |-> LongAgo]

\* MouseStates of a value-initialised LightVisDetail: all zero.
DefaultMouseStates ==
    [mouse_left |-> FALSE, mouse_middle |-> FALSE, mouse_right |-> FALSE,
     mouse_double_click |-> FALSE,
     control_left |-> FALSE, control_right |-> FALSE,
     shift_left |-> FALSE, shift_right |-> FALSE,
     mouse_normal_position |-> <<0, 0>>,
     mouse_drag_position |-> <<0, 0>>,
     scroll |-> <<0, 0>>]

\* A static Eigen::Vector3f: zero-initialised storage, no-op constructor.
ZeroYpr == <<0, 0, 0>>

NoFrame == [vis |-> NULL]
NoCall == [op |-> "none", vis |-> NULL, k |-> 0]
\* No left press yet: the window is fresh, there is no previous press and
\* no run of presses that follow one another within the double-click window.
NoClicks == [fresh |-> TRUE, prev |-> LongAgo, chain |-> 0, dc |-> 0]
NoQuiet == [seen |-> FALSE, pos |-> <<0, 0>>, ypr |-> ZeroYpr]
NoAnchor == [pos |-> <<0, 0>>, ypr |-> ZeroYpr]

Init ==
    /\ creates = [v \in Vis |-> 0]
    /\ spawning = {}
    /\ loaded = [v \in Vis |-> FALSE]
    /\ inspected = [closing |-> {}, open |-> {}]
    /\ viewport = [v \in Vis |-> DefaultViewport]
    /\ events = [v \in Vis |-> DefaultEvents]
    /\ mouse_states = [v \in Vis |-> DefaultMouseStates]
    /\ last_ypr = ZeroYpr
    /\ now = 0
    /\ polled = 0
    /\ pe = NoFrame
    /\ anchor = [v \in Vis |-> NoAnchor]
    /\ quiet = [v \in Vis |-> NoQuiet]
    /\ frames = 0
    /\ points = [d \in DataRefs |-> 0]
    /\ palette = [d \in DataRefs |-> <<>>]
    /\ grid_lines = <<>>
    /\ colors = <<>>
    /\ gl = <<>>
    /\ callbacks = {}
    /\ cw = NoCall
    /\ clicks = [v \in Vis |-> NoClicks]
    /\ obj = [v \in Vis |-> "none"]
    /\ window = [v \in Vis |-> NULL]
    /\ program = [v \in Vis |-> "none"]
    /\ shaders = [v \in Vis |-> FALSE]
    /\ position_records = [v \in Vis |-> <<>>]
    /\ awaiting = {}
    /\ active = [h \in Handles |-> NULL]
    /\ native = {}
    /\ should_close = {}
    /\ pc = "idle"
    /\ it = NULL
    /\ cur = NULL
    /\ step = 0
    /\ closing = <<>>
    /\ ret = "none"
    /\ trace = <<>>
    /\ draws = [v \in Vis |-> 0]
    /\ ev = NoEvent
    /\ failed = [v \in Vis |-> FALSE]
    /\ retried = FALSE
    /\ ever_shown = FALSE
    /\ shown_since_close = FALSE
    /\ all_closing = FALSE
    /\ body_ran = FALSE

\* ------------------------------------------------------- history updates
\* show() was called on the objects of C.
ShowCalled(C, alsoCleared) ==
    /\ ever_shown' = (ever_shown \/ C # {})
    /\ shown_since_close' = (shown_since_close \/ C # {})
    /\ failed' = [s \in Vis |-> IF s \in C \cup alsoCleared THEN FALSE ELSE failed[s]]

\* ------------------------------------------------------ LightVis methods
\* Variant: unload() runs after the context record was zeroed.
DestroyWindow_UnloadLate(v, S) ==
    LET h == window[v] IN
    /\ awaiting' = awaiting \cup ShowTargets(S, [window EXCEPT ![v] = NULL])
    /\ shaders' = [shaders EXCEPT ![v] = FALSE]
    /\ active' = [active EXCEPT ![h] = NULL]
    /\ callbacks' = callbacks \ {h}
    /\ native' = native \ {h}
    /\ should_close' = should_close \ {h}
    /\ window' = [window EXCEPT ![v] = NULL]
    /\ program' = [program EXCEPT ![v] = "none"]
    /\ ShowCalled(Callable(S), {})

\* LightVis::destroy_window on v, whose unload() override calls show() on S.
DestroyWindow(v, S) ==
    LET h == window[v] IN
    /\ awaiting' = awaiting \cup ShowTargets(S, window)
    /\ shaders' = [shaders EXCEPT ![v] = FALSE]
    /\ active' = [active EXCEPT ![h] = NULL]
    /\ callbacks' = callbacks \ {h}
    /\ native' = native \ {h}
    /\ should_close' = should_close \ {h}
    /\ window' = [window EXCEPT ![v] = NULL]
    /\ program' = [program EXCEPT ![v] = "none"]
    /\ ShowCalled(Callable(S), {})

\* LightVis::LightVis at address v (fresh storage, or storage of a destroyed object).
Construct(v) ==
    /\ UserCode
    /\ obj[v] # "alive"
    /\ v \notin ActiveVis
    /\ obj' = [obj EXCEPT ![v] = "alive"]
    /\ window' = [window EXCEPT ![v] = NULL]
    /\ program' = [program EXCEPT ![v] = "none"]
    /\ shaders' = [shaders EXCEPT ![v] = FALSE]
    /\ position_records' = [position_records EXCEPT ![v] = <<>>]
    /\ failed' = [failed EXCEPT ![v] = FALSE]
    /\ ev' = Event("LightVis", v, <<>>)
    /\ clicks' = [clicks EXCEPT ![v] = NoClicks]
    /\ UNCHANGED <<regv, loopv, trace, draws, canvasv, cbv, retried, ever_shown,
                   shown_since_close, all_closing, body_ran>>
    /\ loaded' = [loaded EXCEPT ![v] = FALSE]
    /\ viewport' = [viewport EXCEPT ![v] = DefaultViewport]
    /\ events' = [events EXCEPT ![v] = DefaultEvents]
    /\ mouse_states' = [mouse_states EXCEPT ![v] = DefaultMouseStates]
    /\ UNCHANGED <<creates, spawning, inspected, last_ypr, now, polled, pe, anchor,
                   quiet, frames>>

\* Variant: show() creates and registers the native window at once.
Show_Eager(v) ==
    /\ UserCode
    /\ obj[v] = "alive"
    /\ window[v] = NULL
    /\ \E h \in Handles \ native :
         /\ window' = [window EXCEPT ![v] = h]
         /\ active' = [active EXCEPT ![h] = v]
         /\ native' = native \cup {h}
    /\ ShowCalled({v}, {})
    /\ ev' = Event("show", v, <<>>)
    /\ UNCHANGED <<obj, program, shaders, position_records, awaiting, should_close,
                   loopv, trace, draws, retried, all_closing, body_ran>>
    /\ UNCHANGED <<lifev, inputv, canvasv, cbv, clicks>>

\* Variant: show() inserts the object whether or not it has a window.
Show_Always(v) ==
    /\ UserCode
    /\ obj[v] = "alive"
    /\ awaiting' = awaiting \cup {v}
    /\ ShowCalled({v}, {})
    /\ ev' = Event("show", v, <<>>)
    /\ UNCHANGED <<objv, active, native, should_close, loopv, trace, draws,
                   retried, all_closing, body_ran>>
    /\ UNCHANGED <<lifev, inputv, canvasv, cbv, clicks>>

\* LightVis::show.
Show(v) ==
    /\ UserCode
    /\ obj[v] = "alive"
    /\ awaiting' = IF window[v] = NULL THEN awaiting \cup {v} ELSE awaiting
    /\ ShowCalled({v}, {})
    /\ ev' = Event("show", v, <<>>)
    /\ UNCHANGED <<objv, active, native, should_close, loopv, trace, draws,
                   retried, all_closing, body_ran>>
    /\ UNCHANGED <<lifev, inputv, canvasv, cbv, clicks>>

\* Variant: hide() withdraws a pending show() request.
Hide_DropsRequest(v) ==
    /\ UserCode
    /\ obj[v] = "alive"
    /\ IF window[v] # NULL
         THEN /\ \E S \in SUBSET Vis : DestroyWindow(v, S)
              /\ ev' = Event("hide", v, <<"unload", "detail->unload">>)
         ELSE /\ ev' = Event("hide", v, <<>>)
              /\ awaiting' = awaiting \ {v}
              /\ UNCHANGED <<window, program, shaders, active, native, should_close, callbacks,
                             failed, ever_shown, shown_since_close>>
    /\ UNCHANGED <<obj, position_records, loopv, trace, draws, retried,
                   all_closing, body_ran>>
    /\ loaded' = [loaded EXCEPT ![v] = FALSE]
    /\ UNCHANGED <<creates, spawning, inspected, inputv, canvasv, cw, clicks>>

\* LightVis::hide.
Hide(v) ==
    /\ UserCode
    /\ obj[v] = "alive"
    /\ IF window[v] # NULL
         THEN /\ \E S \in SUBSET Vis : DestroyWindow(v, S)
              /\ ev' = Event("hide", v, <<"unload", "detail->unload">>)
         ELSE /\ ev' = Event("hide", v, <<>>)
              /\ UNCHANGED <<window, program, shaders, regv, callbacks, failed, ever_shown,
                             shown_since_close>>
    /\ UNCHANGED <<obj, position_records, loopv, trace, draws, retried,
                   all_closing, body_ran>>
    /\ loaded' = [loaded EXCEPT ![v] = FALSE]
    /\ UNCHANGED <<creates, spawning, inspected, inputv, canvasv, cw, clicks>>

\* LightVis::~LightVis: hide() and nothing else.  The virtual unload() it
\* reaches is LightVis::unload, the derived part being gone already.
Destroy(v) ==
    /\ UserCode
    /\ obj[v] = "alive"
    /\ pc = "gui" => v # cur
    /\ IF window[v] # NULL
         THEN /\ DestroyWindow(v, {})
              /\ ev' = Event("~LightVis", v, <<"LightVis::unload", "detail->unload">>)
         ELSE /\ ev' = Event("~LightVis", v, <<>>)
              /\ UNCHANGED <<window, program, shaders, regv, callbacks, failed, ever_shown,
                             shown_since_close>>
    /\ obj' = [obj EXCEPT ![v] = "dead"]
    /\ position_records' = [position_records EXCEPT ![v] = <<>>]
    /\ UNCHANGED <<loopv, trace, draws, retried,
                   all_closing, body_ran>>
    /\ UNCHANGED <<lifev, inputv, canvasv, cw, clicks>>

\* position_record_t
Record(traj, d, c, cs) == [is_trajectory |-> traj, data |-> d, color |-> c, colors |-> cs]

\* Variant: the record is inserted at the front.
PushFront(records, record) == <<record>> \o records

\* detail->position_records.push_back(record)
PushBack(records, record) == Append(records, record)

\* The body shared by the four overloads.
AddRecord(name, v, record, as) ==
    /\ UserCode
    /\ obj[v] = "alive"
    /\ Len(position_records[v]) < MaxRecords
    /\ position_records' = [position_records EXCEPT ![v] = PushBack(@, record)]
    /\ ev' = Call(name, v, as)
    /\ UNCHANGED <<obj, window, program, shaders, regv, loopv, trace, draws, failed,
                   retried, ever_shown, shown_since_close, all_closing, body_ran>>
    /\ UNCHANGED <<lifev, inputv, canvasv, cbv, clicks>>

\* add_points(points, color)
AddPointsColor(v, d, c) ==
    AddRecord("add_points", v, Record(FALSE, d, c, NULL), <<d, "color", c>>)

\* add_points(points, colors)
AddPointsColors(v, d, cs) ==
    AddRecord("add_points", v, Record(FALSE, d, NULL, cs), <<d, "colors", cs>>)

\* add_trajectory(positions, color)
AddTrajectoryColor(v, d, c) ==
    AddRecord("add_trajectory", v, Record(TRUE, d, c, NULL), <<d, "color", c>>)

\* add_trajectory(positions, colors)
AddTrajectoryColors(v, d, cs) ==
    AddRecord("add_trajectory", v, Record(TRUE, d, NULL, cs), <<d, "colors", cs>>)

\* ------------------------------------------------- LightVisDetail::main
RECURSIVE Ascending(_)
\* The elements of a set of integers in ascending order (the iteration order
\* of std::set and std::map).
Ascending(S) == IF S = {} THEN <<>> ELSE <<Min(S)>> \o Ascending(S \ {Min(S)})

\* int lightvis::main(): glfwInit, glfwSetErrorCallback, then the loop.
CallMain ==
    /\ OutsideMain
    /\ pc' = "check"
    /\ ret' = "none"
    /\ body_ran' = FALSE
    /\ trace' = <<>>
    /\ draws' = [v \in Vis |-> 0]
    /\ ev' = Event("main", NULL, <<>>)
    /\ UNCHANGED <<objv, regv, it, cur, step, closing, failed, retried, ever_shown,
                   shown_since_close, all_closing>>
    /\ UNCHANGED <<lifev, inputv, canvasv, cbv, clicks>>

\* Variant: the loop condition tests the active map alone.
LoopCondition_ActiveOnly == ActiveKeys # {}

\* The condition of the while loop.
LoopCondition == ActiveKeys # {} \/ awaiting # {}

LoopCheck ==
    /\ pc = "check"
    /\ IF LoopCondition
         THEN pc' = "spawn" /\ it' = NULL /\ body_ran' = TRUE
         ELSE pc' = "terminate" /\ UNCHANGED <<it, body_ran>>
    /\ ev' = Event("while", NULL, <<>>)
    /\ UNCHANGED <<objv, regv, cur, step, closing, ret, trace, draws, failed,
                   retried, ever_shown, shown_since_close, all_closing>>
    /\ IF LoopCondition
         THEN creates' = [v \in Vis |-> 0] /\ spawning' = awaiting
         ELSE UNCHANGED <<creates, spawning>>
    /\ inspected' = [closing |-> {}, open |-> {}]
    /\ UNCHANGED <<loaded, inputv, canvasv, cbv, clicks>>

\* What is left of `for (auto vis : awaiting_windows())`: insertions made
\* while the set is iterated are visited only when they sort after the
\* element the iterator is at.
NextAwaiting == {v \in awaiting : v > it}

\* create_window on v: glfwCreateWindow returned null, `return`.
CreateFails(v) ==
    /\ window' = [window EXCEPT ![v] = NULL]
    /\ failed' = [failed EXCEPT ![v] = TRUE]
    /\ retried' = (retried \/ failed[v])
    /\ ev' = Event("create_window", v, <<>>)
    /\ UNCHANGED <<obj, program, shaders, position_records, regv, callbacks, ever_shown,
                   shown_since_close>>

\* Variant: the new handle is not entered in the active map.
CreateRegistered_Unregistered(v, h, built) ==
    /\ h \in Handles \ native
    /\ window' = [window EXCEPT ![v] = h]
    /\ active' = active
    /\ native' = native \cup {h}
    /\ should_close' = should_close \ {h}
    /\ program' = [program EXCEPT ![v] = IF built THEN "ok" ELSE "bad"]
    /\ retried' = (retried \/ failed[v])

\* create_window on v up to and including the GUI program: handle h is
\* registered; the GUI shaders are compiled and linked, no status is read.
CreateRegistered(v, h, built) ==
    /\ h \in Handles \ native
    /\ window' = [window EXCEPT ![v] = h]
    /\ active' = [active EXCEPT ![h] = v]
    /\ native' = native \cup {h}
    /\ should_close' = should_close \ {h}
    /\ program' = [program EXCEPT ![v] = IF built THEN "ok" ELSE "bad"]
    /\ retried' = (retried \/ failed[v])

\* create_window on v, complete: detail->load() builds the two Shader
\* objects, then the load() override runs and calls show() on S.
CreateOk(v, h, built, S) ==
    /\ CreateRegistered(v, h, built)
    /\ callbacks' = callbacks \cup {h}
    /\ shaders' = [shaders EXCEPT ![v] = TRUE]
    /\ awaiting' = awaiting \cup ShowTargets(S, window')
    /\ ShowCalled(Callable(S), {v})
    /\ ev' = Event("create_window", v, <<"detail->load", "load">>)
    /\ UNCHANGED <<obj, position_records>>

\* create_window on v, where a Shader constructor of detail->load() finds a
\* compile or link failure: puts(...) and exit(0).
CreateShaderExit(v, h, built) ==
    /\ CreateRegistered(v, h, built)
    /\ callbacks' = callbacks \cup {h}
    /\ failed' = [failed EXCEPT ![v] = FALSE]
    /\ ev' = Event("create_window", v, <<>>)
    /\ UNCHANGED <<obj, shaders, position_records, awaiting, ever_shown,
                   shown_since_close>>

SpawnCreateFails ==
    /\ pc = "spawn" /\ NextAwaiting # {}
    /\ LET v == Min(NextAwaiting) IN CreateFails(v) /\ it' = v
    /\ UNCHANGED <<pc, cur, step, closing, ret, trace, draws, all_closing, body_ran>>
    /\ creates' = [creates EXCEPT ![Min(NextAwaiting)] = @ + 1]
    /\ UNCHANGED <<spawning, loaded, inspected, inputv, canvasv, cw, clicks>>

SpawnCreateOk ==
    /\ pc = "spawn" /\ NextAwaiting # {}
    /\ LET v == Min(NextAwaiting) IN
         /\ \E h \in Handles, built \in BOOLEAN, S \in SUBSET Vis : CreateOk(v, h, built, S)
         /\ it' = v
    /\ UNCHANGED <<pc, cur, step, closing, ret, trace, draws, all_closing, body_ran>>
    /\ creates' = [creates EXCEPT ![Min(NextAwaiting)] = @ + 1]
    /\ loaded' = [loaded EXCEPT ![Min(NextAwaiting)] = (obj[Min(NextAwaiting)] = "alive")]
    /\ clicks' = [clicks EXCEPT ![Min(NextAwaiting)].fresh = TRUE]
    /\ UNCHANGED <<spawning, inspected, inputv, canvasv, cw>>

SpawnShaderExit ==
    /\ pc = "spawn" /\ NextAwaiting # {}
    /\ LET v == Min(NextAwaiting) IN
         /\ \E h \in Handles, built \in BOOLEAN : CreateShaderExit(v, h, built)
         /\ it' = v
    /\ pc' = "exited"
    /\ UNCHANGED <<cur, step, closing, ret, trace, draws, all_closing, body_ran>>
    /\ creates' = [creates EXCEPT ![Min(NextAwaiting)] = @ + 1]
    /\ clicks' = [clicks EXCEPT ![Min(NextAwaiting)].fresh = TRUE]
    /\ UNCHANGED <<spawning, loaded, inspected, inputv, canvasv, cw>>

\* The set still holds the address of a destroyed object: create_window
\* runs on stale storage.  Either the process dies here, or the storage is
\* still intact and the call proceeds as above.
SpawnDangling ==
    /\ pc = "spawn" /\ NextAwaiting # {}
    /\ obj[Min(NextAwaiting)] # "alive"
    /\ pc' = "crashed"
    /\ ev' = Event("create_window", Min(NextAwaiting), <<>>)
    /\ UNCHANGED <<objv, regv, it, cur, step, closing, ret, trace, draws, failed,
                   retried, ever_shown, shown_since_close, all_closing, body_ran>>
    /\ UNCHANGED <<lifev, inputv, canvasv, cbv, clicks>>

\* Variant: the awaiting set is not cleared after the spawn phase.
SpawnEnd_NoClear ==
    /\ pc = "spawn" /\ NextAwaiting = {}
    /\ pc' = "poll"
    /\ ev' = Event("clear", NULL, <<>>)
    /\ UNCHANGED <<objv, regv, it, cur, step, closing, ret, trace, draws, failed,
                   retried, ever_shown, shown_since_close, all_closing, body_ran>>
    /\ UNCHANGED <<lifev, inputv, canvasv, cbv, clicks>>

\* awaiting_windows().clear()
SpawnEnd ==
    /\ pc = "spawn" /\ NextAwaiting = {}
    /\ awaiting' = {}
    /\ pc' = "poll"
    /\ ev' = Event("clear", NULL, <<>>)
    /\ UNCHANGED <<objv, active, native, should_close, it, cur, step, closing, ret,
                   trace, draws, failed, retried, ever_shown, shown_since_close,
                   all_closing, body_ran>>
    /\ UNCHANGED <<lifev, inputv, canvasv, cbv, clicks>>

\* glfwPollEvents(): the windows of C get their close flag set.
PollEvents ==
    /\ pc = "poll"
    /\ \E C \in SUBSET native : should_close' = should_close \cup C
    /\ pc' = "close"
    /\ trace' = <<>>
    /\ draws' = [v \in Vis |-> 0]
    /\ ev' = Event("glfwPollEvents", NULL, <<>>)
    /\ UNCHANGED <<objv, awaiting, active, native, it, cur, step, closing, ret,
                   failed, retried, ever_shown, shown_since_close, all_closing,
                   body_ran>>
    /\ creates' = [v \in Vis |-> 0]
    /\ spawning' = {}
    /\ UNCHANGED <<loaded, inspected, inputv, canvasv, cbv, clicks>>

\* Variant: the scan of the active map stops at the first closing window.
ClosingWindows_FirstOnly ==
    LET hs == {h \in ActiveKeys : h \in should_close}
    IN  IF hs = {} THEN <<>> ELSE <<active[Min(hs)]>>

\* The `closing` vector: the owners of the active windows whose close flag
\* is set, in map order.
ClosingWindows ==
    LET hs == Ascending({h \in ActiveKeys : h \in should_close})
    IN  [i \in 1..Len(hs) |-> active[hs[i]]]

CloseInspect ==
    /\ pc = "close"
    /\ closing' = ClosingWindows
    /\ all_closing' = (ActiveKeys \subseteq should_close)
    /\ shown_since_close' = FALSE
    /\ pc' = "closing"
    /\ ev' = Event("glfwWindowShouldClose", NULL, <<>>)
    /\ UNCHANGED <<objv, regv, it, cur, step, ret, trace, draws, failed, retried,
                   ever_shown, body_ran>>
    /\ inspected' = [closing |-> {active[h] : h \in ActiveKeys \cap should_close},
                      open |-> {active[h] : h \in ActiveKeys \ should_close}]
    /\ UNCHANGED <<creates, spawning, loaded, inputv, canvasv, cbv, clicks>>

\* Variant: the closing windows are taken off the vector without hide().
CloseStep_Skip ==
    /\ pc = "closing" /\ closing # <<>>
    /\ closing' = Tail(closing)
    /\ ev' = Event("hide", Head(closing), <<>>)
    /\ UNCHANGED <<objv, regv, pc, it, cur, step, ret, trace, draws, failed, retried,
                   ever_shown, shown_since_close, all_closing, body_ran, lifev, inputv, canvasv, cbv, clicks>>

\* `for (auto vis : closing) vis->hide();`
CloseStep ==
    /\ pc = "closing" /\ closing # <<>>
    /\ LET v == Head(closing) IN
         IF window[v] # NULL
           THEN /\ \E S \in SUBSET Vis : DestroyWindow(v, S)
                /\ ev' = Event("hide", v, <<"unload", "detail->unload">>)
           ELSE /\ ev' = Event("hide", v, <<>>)
                /\ UNCHANGED <<window, program, shaders, regv, callbacks, failed, ever_shown,
                               shown_since_close>>
    /\ closing' = Tail(closing)
    /\ UNCHANGED <<obj, position_records, pc, it, cur, step, ret, trace, draws,
                   retried, all_closing, body_ran>>
    /\ loaded' = [loaded EXCEPT ![Head(closing)] = FALSE]
    /\ UNCHANGED <<creates, spawning, inspected, inputv, canvasv, cw, clicks>>

CloseEnd ==
    /\ pc = "closing" /\ closing = <<>>
    /\ pc' = "next"
    /\ it' = NULL
    /\ ev' = Event("for", NULL, <<>>)
    /\ UNCHANGED <<objv, regv, cur, step, closing, ret, trace, draws, failed,
                   retried, ever_shown, shown_since_close, all_closing, body_ran>>
    /\ UNCHANGED <<lifev, inputv, canvasv, cbv, clicks>>

\* What is left of `for (auto [glfw, vis] : active_windows())`.
NextActive == {h \in ActiveKeys : h > it}

NextWindow ==
    /\ pc = "next"
    /\ IF NextActive = {}
         THEN pc' = "check" /\ UNCHANGED <<it, cur, step>>
         ELSE /\ it' = Min(NextActive)
              /\ cur' = active[Min(NextActive)]
              /\ step' = 0
              /\ pc' = "frame"
    /\ ev' = Event("for", NULL, <<>>)
    /\ UNCHANGED <<objv, regv, closing, ret, trace, draws, failed, retried,
                   ever_shown, shown_since_close, all_closing, body_ran>>
    /\ UNCHANGED <<lifev, inputv, canvasv, cbv, clicks>>

NumFrameSteps == 6

\* Variant: the buffers are swapped before the GUI overlay is rendered.
FrameStepName_PresentEarly(k) ==
    CASE k = 1 -> "activate_context"
      [] k = 2 -> "process_events"
      [] k = 3 -> "gui"
      [] k = 4 -> "render_canvas"
      [] k = 5 -> "present"
      [] k = 6 -> "render_gui"

\* The k-th call of the frame loop's body.
FrameStepName(k) ==
    CASE k = 1 -> "activate_context"
      [] k = 2 -> "process_events"
      [] k = 3 -> "gui"
      [] k = 4 -> "render_canvas"
      [] k = 5 -> "render_gui"
      [] k = 6 -> "present"

\* The step dereferences what hide() released: the native window (a GLFW
\* call on a null handle) or the Shader objects detail->unload() reset.
StepFaults(s, v) ==
    CASE s = "gui" -> FALSE
      [] s = "render_canvas" -> ~shaders[v]
      [] OTHER -> window[v] = NULL

\* LightVis::render_canvas: viewport, clear, draw_grid, draw_positions.
\* The draw(w, h) hook is not among its calls.
RenderCanvasDraws(d, v) == d

FrameStep ==
    /\ pc = "frame" /\ step < NumFrameSteps
    /\ LET s == FrameStepName(step + 1) IN
         IF StepFaults(s, cur)
           THEN /\ pc' = "crashed"
                /\ UNCHANGED <<step, trace, draws>>
           ELSE /\ step' = step + 1
                /\ trace' = Append(trace, [vis |-> cur, step |-> s])
                /\ draws' = IF s = "render_canvas" THEN RenderCanvasDraws(draws, cur)
                                                   ELSE draws
                /\ pc' = IF s = "gui" THEN "gui"
                         ELSE IF step + 1 = NumFrameSteps THEN "next" ELSE "frame"
    /\ ev' = Event(FrameStepName(step + 1), cur, <<>>)
    /\ UNCHANGED <<objv, regv, it, cur, closing, ret, failed, retried, ever_shown,
                   shown_since_close, all_closing, body_ran>>
    /\ UNCHANGED <<lifev, inputv, canvasv, cbv, clicks>>

\* The gui() override returns.
GuiReturn ==
    /\ pc = "gui"
    /\ pc' = IF step = NumFrameSteps THEN "next" ELSE "frame"
    /\ ev' = Event("gui returns", cur, <<>>)
    /\ UNCHANGED <<objv, regv, it, cur, step, closing, ret, trace, draws, failed,
                   retried, ever_shown, shown_since_close, all_closing, body_ran>>
    /\ UNCHANGED <<lifev, inputv, canvasv, cbv, clicks>>

\* glfwTerminate(); return EXIT_SUCCESS;
Terminate ==
    /\ pc = "terminate"
    /\ native' = {}
    /\ should_close' = {}
    /\ pc' = "returned"
    /\ ret' = "EXIT_SUCCESS"
    /\ ev' = Event("glfwTerminate", NULL, <<>>)
    /\ UNCHANGED <<objv, awaiting, active, it, cur, step, closing, trace, draws,
                   failed, retried, ever_shown, shown_since_close, all_closing,
                   body_ran>>
    /\ UNCHANGED <<lifev, inputv, canvasv, cbv, clicks>>

\* ------------------------------------------------------- specifications
MainStep ==
    \/ LoopCheck
    \/ SpawnCreateFails
    \/ SpawnCreateOk
    \/ SpawnShaderExit
    \/ SpawnDangling
    \/ SpawnEnd
    \/ PollEvents
    \/ CloseInspect
    \/ CloseStep
    \/ CloseEnd
    \/ NextWindow
    \/ FrameStep
    \/ GuiReturn
    \/ Terminate

Next ==
    \/ \E v \in Vis : Construct(v)
    \/ \E v \in Vis : Show(v)
    \/ \E v \in Vis : Hide(v)
    \/ \E v \in Vis : Destroy(v)
    \/ CallMain
    \/ LoopCheck
    \/ SpawnCreateFails
    \/ SpawnCreateOk
    \/ SpawnShaderExit
    \/ SpawnDangling
    \/ SpawnEnd
    \/ PollEvents
    \/ CloseInspect
    \/ CloseStep
    \/ CloseEnd
    \/ NextWindow
    \/ FrameStep
    \/ GuiReturn
    \/ Terminate

Spec == Init /\ [][Next]_vars

\* The main loop is straight-line code of one thread: a step of main() that
\* can be taken is taken (every hook returns, glfwPollEvents does not block).
FairSpec == Spec /\ WF_vars(MainStep)

\* The data API alone: objects come and go and records are added to them
\* while main() is not running.  Two addresses carry the records.
RecVis == {1, NumVis}

NextRecords ==
    \/ \E v \in RecVis : Construct(v)
    \/ \E v \in RecVis : Destroy(v)
    \/ \E v \in RecVis, d \in DataRefs : AddPointsColor(v, d, d)
    \/ \E v \in RecVis, d \in DataRefs : AddPointsColors(v, d, d)
    \/ \E v \in RecVis, d \in DataRefs : AddTrajectoryColor(v, d, d)
    \/ \E v \in RecVis, d \in DataRefs : AddTrajectoryColors(v, d, d)

SpecRecords == Init /\ [][NextRecords]_vars

\* ------------------------------------------- input callbacks, process_events
LIGHTVIS_DOUBLE_CLICK_MIN_DT == 2
LIGHTVIS_DOUBLE_CLICK_MAX_DT == 20
NK_INPUT_MAX == 16
DragDivisor == 10           \* drag.x() / 10
ScrollDivisor == 600        \* scroll_offset.y() / 600.0
ScaleMin == 1               \* 1.0e-4
ScaleMax == 100000000       \* 1.0e4

Add2(p, q) == <<p[1] + q[1], p[2] + q[2]>>
Sub2(p, q) == <<p[1] - q[1], p[2] - q[2]>>

\* (button_left || button_middle || button_right)
AnyButton(b) == b.mouse_left \/ b.mouse_middle \/ b.mouse_right

\* What one process_events reads from GLFW, from nuklear and from the mouse()
\* hook: the buttons, the cursor, the modifier keys, nk_item_is_any_active
\* and the value mouse() returns.
Inp(l, m, r, c, a, hd) ==
    [mouse_left |-> l, mouse_middle |-> m, mouse_right |-> r, cursor |-> c,
     control_left |-> FALSE, control_right |-> FALSE,
     shift_left |-> FALSE, shift_right |-> FALSE,
     item_active |-> a, handled |-> hd]

\* scroll_input_callback: events.scroll_offset += (dx, dy)
ScrollInputCallback(h, d) ==
    /\ pc = "poll" /\ polled < MaxPolled
    /\ h \in ActiveKeys
    /\ events' = [events EXCEPT ![active[h]].scroll_offset = Add2(@, d)]
    /\ polled' = polled + 1
    /\ ev' = Event("scroll_input_callback", active[h], <<>>)
    /\ UNCHANGED <<objv, regv, loopv, trace, draws, canvasv, cbv, clicks, failed, retried, ever_shown,
                   shown_since_close, all_closing, body_ran, lifev, viewport,
                   mouse_states, last_ypr, now, pe, anchor, quiet, frames>>

\* Variant: the code point is queued whatever the length of the queue.
Queued_Unbounded(characters, codepoint) == Append(characters, codepoint)

\* The queue after character_input_callback: the code point is appended
\* unless the queue holds NK_INPUT_MAX of them.
Queued(characters, codepoint) ==
    IF Len(characters) < NK_INPUT_MAX THEN Append(characters, codepoint) ELSE characters

\* character_input_callback, one of the few callbacks of a short poll.
CharacterInputCallback(h, codepoint) ==
    /\ pc = "poll" /\ polled < MaxPolled
    /\ h \in ActiveKeys
    /\ events' = [events EXCEPT ![active[h]].characters = Queued(@, codepoint)]
    /\ polled' = polled + 1
    /\ ev' = Call("character_input_callback", active[h], <<codepoint>>)
    /\ UNCHANGED <<objv, regv, loopv, trace, draws, canvasv, cbv, clicks, failed, retried, ever_shown,
                   shown_since_close, all_closing, body_ran, lifev, viewport,
                   mouse_states, last_ypr, now, pe, anchor, quiet, frames>>

\* Variant: a detected double-click keeps the time of its press.
ButtonEvents_NoReset(e, button, action, t, c) ==
    IF button = "left" /\ action = "press"
      THEN LET dt == t - e.last_left_click_time IN
           IF dt > LIGHTVIS_DOUBLE_CLICK_MIN_DT /\ dt < LIGHTVIS_DOUBLE_CLICK_MAX_DT
             THEN [e EXCEPT !.double_click = TRUE,
                            !.double_click_position = c,
                            !.last_left_click_time = t]
             ELSE [e EXCEPT !.last_left_click_time = t]
      ELSE e

\* The events after a button callback at time t with the cursor at c.
ButtonEvents(e, button, action, t, c) ==
    IF button = "left" /\ action = "press"
      THEN LET dt == t - e.last_left_click_time IN
           IF dt > LIGHTVIS_DOUBLE_CLICK_MIN_DT /\ dt < LIGHTVIS_DOUBLE_CLICK_MAX_DT
             THEN [e EXCEPT !.double_click = TRUE,
                            !.double_click_position = c,
                            !.last_left_click_time = LongAgo]
             ELSE [e EXCEPT !.last_left_click_time = t]
      ELSE e

\* History of the left presses of one object, after a button callback at
\* time t took its events from e to e2: the press is linked to the previous
\* left press when it follows it within the double-click window, and it was
\* detected as a double-click when the callback reset the last-click time.
Clicked(k, e, e2, button, action, t) ==
    IF button = "left" /\ action = "press"
      THEN LET linked == /\ t - k.prev > LIGHTVIS_DOUBLE_CLICK_MIN_DT
                         /\ t - k.prev < LIGHTVIS_DOUBLE_CLICK_MAX_DT
               hit == e2.last_left_click_time = LongAgo
           IN [fresh |-> FALSE,
               prev |-> t,
               chain |-> IF linked THEN k.chain + 1 ELSE 1,
               dc |-> (IF linked THEN k.dc ELSE 0) + (IF hit THEN 1 ELSE 0)]
      ELSE k

\* mouse_input_callback, d hundredths of a second after the previous one.
MouseInputCallback(h, button, action, c, d) ==
    /\ pc = "poll" /\ polled < MaxPolled
    /\ h \in ActiveKeys
    /\ now' = now + d
    /\ events' = [events EXCEPT ![active[h]] = ButtonEvents(@, button, action, now', c)]
    /\ clicks' = [clicks EXCEPT ![active[h]] =
                     Clicked(@, events[active[h]], events'[active[h]], button, action, now')]
    /\ polled' = polled + 1
    /\ ev' = Call("mouse_input_callback", active[h], <<button, action, c>>)
    /\ UNCHANGED <<objv, regv, loopv, trace, draws, canvasv, cbv, failed, retried, ever_shown,
                   shown_since_close, all_closing, body_ran, lifev, viewport,
                   mouse_states, last_ypr, pe, anchor, quiet, frames>>

\* What process_events hands to nuklear between nk_input_begin and
\* nk_input_end.
NkInput(e, inp) ==
    [characters |-> e.characters,
     motion |-> inp.cursor,
     left |-> inp.mouse_left, middle |-> inp.mouse_middle, right |-> inp.mouse_right,
     double |-> [position |-> e.double_click_position, down |-> e.double_click],
     scroll |-> e.scroll_offset]

\* Variant: the character queue is not cleared.
Consumed_KeepsCharacters(e) ==
    [e EXCEPT !.double_click = FALSE, !.scroll_offset = <<0, 0>>]

\* events_t when process_events returns.
Consumed(e) ==
    [e EXCEPT !.characters = <<>>, !.double_click = FALSE, !.scroll_offset = <<0, 0>>]

\* Variant: the anchor position follows the cursor in every frame.
NormalPosition_Follows(old, inp) == inp.cursor

\* states.mouse_normal_position
NormalPosition(old, inp) ==
    IF ~AnyButton(inp) THEN inp.cursor ELSE old.mouse_normal_position

\* detail->mouse_states as filled in before mouse(states) is called.
MouseStatesOf(old, e, inp) ==
    [mouse_left |-> inp.mouse_left, mouse_middle |-> inp.mouse_middle,
     mouse_right |-> inp.mouse_right,
     mouse_double_click |-> e.double_click,
     control_left |-> inp.control_left, control_right |-> inp.control_right,
     shift_left |-> inp.shift_left, shift_right |-> inp.shift_right,
     mouse_normal_position |-> NormalPosition(old, inp),
     mouse_drag_position |-> inp.cursor,
     scroll |-> e.scroll_offset]

\* Variant: last_ypr is never taken from the viewport.
LastYpr_Stale(last, states, ypr) == last

\* Variant: the value mouse() returns is ignored.
CameraRuns_IgnoresHook(inp) == ~inp.item_active

\* The built-in camera control runs: no GUI item is active and mouse()
\* returned false.
CameraRuns(inp) == ~inp.item_active /\ ~inp.handled

\* last_ypr after `if (no button) last_ypr = viewport_ypr`.
LastYpr(last, states, ypr) == IF ~AnyButton(states) THEN ypr ELSE last

\* viewport_ypr: yaw and pitch set from last_ypr and the drag, roll kept.
DragAngles(last, states, ypr) ==
    LET drag == Sub2(states.mouse_drag_position, states.mouse_normal_position) IN
    <<last[1] - (drag[1] * AngleUnit) \div DragDivisor,
      last[2] - (drag[2] * AngleUnit) \div DragDivisor,
      ypr[3]>>

Clamp(x, lo, hi) == IF x < lo THEN lo ELSE IF x > hi THEN hi ELSE x

\* scale * (1.0 + scroll_y / 600.0) in double, rounded down to the scale
\* unit: a NaN stays one, an infinity times zero is one, an infinity keeps
\* or flips its sign.
ScaleProduct(scale, sy) ==
    LET f == ScrollDivisor + sy IN
    CASE scale.k = "nan" -> NaN
      [] scale.k = "inf" -> IF f = 0 THEN NaN
                            ELSE IF f > 0 THEN scale
                            ELSE [scale EXCEPT !.v = 0 - @]
      [] OTHER -> Num((scale.v \div ScrollDivisor) * f
                        + ((scale.v % ScrollDivisor) * f) \div ScrollDivisor)

\* std::clamp(v, lo, hi) on doubles, (v < lo) ? lo : (hi < v) ? hi : v:
\* every comparison with a NaN is false, so a NaN comes back.
ClampDouble(x, lo, hi) ==
    CASE x.k = "nan" -> NaN
      [] x.k = "inf" -> IF x.v < 0 THEN Num(lo) ELSE Num(hi)
      [] OTHER -> Num(Clamp(x.v, lo, hi))

\* The double assigned to the float viewport.scale: 1.0e4 is a float,
\* 1.0e-4 is not and becomes the float just below it.
ToFloat(x) == IF x = Num(ScaleMin) THEN FloatBelowMin ELSE x

\* viewport.scale = std::clamp(scale * (1.0 + scroll_y / 600.0), 1.0e-4, 1.0e4)
NewScale(scale, sy) ==
    ToFloat(ClampDouble(ScaleProduct(scale, sy), ScaleMin, ScaleMax))

\* LightVis::process_events on v.
ProcessEvents(v, inp) ==
    LET e == events[v]
        vp == viewport[v]
        states == IF inp.item_active THEN mouse_states[v]
                                     ELSE MouseStatesOf(mouse_states[v], e, inp)
        runs == CameraRuns(inp)
        last == IF runs THEN LastYpr(last_ypr, states, vp.viewport_ypr) ELSE last_ypr
    IN  /\ mouse_states' = [mouse_states EXCEPT ![v] = states]
        /\ last_ypr' = last
        /\ viewport' = [viewport EXCEPT ![v] =
                          IF runs
                            THEN [vp EXCEPT
                                    !.viewport_ypr = DragAngles(last, states, @),
                                    !.scale = NewScale(@, e.scroll_offset[2])]
                            ELSE vp]
        /\ events' = [events EXCEPT ![v] = Consumed(e)]
        /\ pe' = [vis |-> v, inp |-> inp, nk |-> NkInput(e, inp),
                  mouse_called |-> ~inp.item_active]
        /\ anchor' = [anchor EXCEPT ![v] =
                        IF runs /\ ~AnyButton(inp)
                          THEN [pos |-> inp.cursor, ypr |-> vp.viewport_ypr]
                          ELSE @]
        /\ quiet' = [quiet EXCEPT ![v] =
                       IF ~AnyButton(inp)
                         THEN [seen |-> TRUE, pos |-> inp.cursor, ypr |-> vp.viewport_ypr]
                         ELSE @]

\* glfwPollEvents returns; no close flag is set, the close phase hides nothing.
InputPollReturns ==
    /\ pc = "poll"
    /\ pc' = "next"
    /\ it' = NULL
    /\ polled' = 0
    /\ ev' = Event("glfwPollEvents", NULL, <<>>)
    /\ UNCHANGED <<objv, regv, cur, step, closing, ret, trace, draws, canvasv, cbv, clicks, failed, retried,
                   ever_shown, shown_since_close, all_closing, body_ran, lifev,
                   viewport, events, mouse_states, last_ypr, now, pe, anchor, quiet,
                   frames>>

\* The frame loop's body on the next active window; process_events is the
\* call that reads the input.
InputFrame(inp) ==
    /\ pc = "next" /\ NextActive # {}
    /\ LET h == Min(NextActive) IN
         /\ ProcessEvents(active[h], inp)
         /\ it' = h
         /\ cur' = active[h]
         /\ ev' = Event("process_events", active[h],
                        IF inp.item_active THEN <<>> ELSE <<"mouse">>)
    /\ UNCHANGED <<objv, regv, pc, step, closing, ret, trace, draws, canvasv, cbv, clicks, failed, retried,
                   ever_shown, shown_since_close, all_closing, body_ran, lifev, now,
                   polled, frames>>

\* The gui() override of the window just processed is running: its
\* process_events is through, its render_canvas not yet.
InGui == pc = "next" /\ cur # NULL /\ it # NULL /\ ev.op # "render_canvas"

\* User code, in the gui() override of the window just processed, moves the
\* world offset through the reference location() returns.
SetLocation(xyz) ==
    /\ InGui
    /\ viewport' = [viewport EXCEPT ![cur].world_xyz = xyz]
    /\ ev' = Event("location", cur, <<>>)
    /\ UNCHANGED <<objv, regv, loopv, trace, draws, canvasv, cbv, clicks, failed, retried, ever_shown,
                   shown_since_close, all_closing, body_ran, lifev, events,
                   mouse_states, last_ypr, now, polled, pe, anchor, quiet, frames>>

\* User code, in the gui() override of the window just processed, sets the
\* scale through the reference scale() returns.
SetScale(x) ==
    /\ InGui
    /\ viewport[cur].scale # x
    /\ viewport' = [viewport EXCEPT ![cur].scale = x]
    /\ ev' = Event("scale", cur, <<>>)
    /\ UNCHANGED <<objv, regv, loopv, trace, draws, canvasv, cbv, clicks, failed, retried, ever_shown,
                   shown_since_close, all_closing, body_ran, lifev, events,
                   mouse_states, last_ypr, now, polled, pe, anchor, quiet, frames>>

\* The frame loop is through; the loop condition holds, nothing is awaiting.
InputIterationEnd(limit) ==
    /\ pc = "next" /\ NextActive = {}
    /\ frames < limit
    /\ frames' = frames + 1
    /\ pc' = "poll"
    /\ ev' = Event("while", NULL, <<>>)
    /\ UNCHANGED <<objv, regv, it, cur, step, closing, ret, trace, draws, canvasv, cbv, clicks, failed,
                   retried, ever_shown, shown_since_close, all_closing, body_ran, lifev,
                   viewport, events, mouse_states, last_ypr, now, polled, pe, anchor,
                   quiet>>

Max(S) == CHOOSE x \in S : \A y \in S : x >= y

\* The state main() is in when its first spawn phase has ended, the objects
\* of V having been constructed and shown and each having got the native
\* window whose handle equals its address; no input has arrived yet.
WindowsShown(V) ==
    /\ obj = [v \in Vis |-> IF v \in V THEN "alive" ELSE "none"]
    /\ window = [v \in Vis |-> IF v \in V THEN v ELSE NULL]
    /\ program = [v \in Vis |-> IF v \in V THEN "ok" ELSE "none"]
    /\ shaders = [v \in Vis |-> v \in V]
    /\ position_records = [v \in Vis |-> <<>>]
    /\ awaiting = {}
    /\ active = [h \in Handles |-> IF h \in V THEN h ELSE NULL]
    /\ native = V
    /\ should_close = {}
    /\ pc = "poll"
    /\ it = Max(V)
    /\ cur = NULL
    /\ step = 0
    /\ closing = <<>>
    /\ ret = "none"
    /\ trace = <<>>
    /\ draws = [v \in Vis |-> 0]
    /\ ev = Event("clear", NULL, <<>>)
    /\ failed = [v \in Vis |-> FALSE]
    /\ retried = FALSE
    /\ ever_shown = TRUE
    /\ shown_since_close = TRUE
    /\ all_closing = FALSE
    /\ body_ran = TRUE
    /\ creates = [v \in Vis |-> IF v \in V THEN 1 ELSE 0]
    /\ spawning = V
    /\ loaded = [v \in Vis |-> v \in V]
    /\ inspected = [closing |-> {}, open |-> {}]
    /\ viewport = [v \in Vis |-> DefaultViewport]
    /\ events = [v \in Vis |-> DefaultEvents]
    /\ mouse_states = [v \in Vis |-> DefaultMouseStates]
    /\ last_ypr = ZeroYpr
    /\ now = 0
    /\ polled = 0
    /\ pe = NoFrame
    /\ anchor = [v \in Vis |-> NoAnchor]
    /\ quiet = [v \in Vis |-> NoQuiet]
    /\ frames = 0
    /\ points = [d \in DataRefs |-> 0]
    /\ palette = [d \in DataRefs |-> <<>>]
    /\ grid_lines = <<>>
    /\ colors = <<>>
    /\ gl = <<>>
    /\ callbacks = V
    /\ cw = NoCall
    /\ clicks = [v \in Vis |-> NoClicks]

\* Cursor positions, button states, scroll steps, code points and the time
\* steps between button callbacks that the input specifications draw from.
Cursors == {<<0, 0>>, <<3, 0>>, <<3, 4>>}
NoButton == [mouse_left |-> FALSE, mouse_middle |-> FALSE, mouse_right |-> FALSE]
LeftButton == [mouse_left |-> TRUE, mouse_middle |-> FALSE, mouse_right |-> FALSE]
RightButton == [mouse_left |-> FALSE, mouse_middle |-> FALSE, mouse_right |-> TRUE]
Buttons == {NoButton, LeftButton, RightButton}
ScrollStep == <<1, 0 - 300>>
CodePoints == {65, 66}
ClickGap == 10

\* item_active / handled as one process_events can find them.
Handling == {<<TRUE, FALSE>>, <<FALSE, FALSE>>, <<FALSE, TRUE>>}

FrameInputs ==
    {Inp(b.mouse_left, b.mouse_middle, b.mouse_right, c, a[1], a[2]) :
        b \in Buttons, c \in Cursors, a \in Handling}

\* One window with every kind of input: scrolling, typing, clicking, and
\* frames with the left button up or down, with and without an active GUI
\* item, with mouse() returning false or true.
ClickAt == <<3, 4>>

EventInputs ==
    {inp \in FrameInputs :
        \/ ~AnyButton(inp) /\ inp.cursor = <<0, 0>>
        \/ inp.mouse_left /\ inp.cursor = ClickAt}

NextInput ==
    \/ \E h \in Handles : ScrollInputCallback(h, ScrollStep)
    \/ \E h \in Handles, c \in CodePoints : CharacterInputCallback(h, c)
    \/ \E h \in Handles : MouseInputCallback(h, "left", "press", ClickAt, ClickGap)
    \/ InputPollReturns
    \/ \E inp \in EventInputs : InputFrame(inp)
    \/ InputIterationEnd(MaxInputFrames)

SpecInput == WindowsShown({1}) /\ [][NextInput]_vars

\* One window with the default mouse() (it returns false), dragged with any
\* button, a GUI item being active in some frames.
DragInputs == {inp \in FrameInputs : ~inp.handled}

Locations == {<<0, 0, 0>>, <<1, 2, 0>>}

NextDrag ==
    \/ \E xyz \in Locations : SetLocation(xyz)
    \/ InputPollReturns
    \/ \E inp \in DragInputs : InputFrame(inp)
    \/ InputIterationEnd(MaxFrames)

SpecDrag == WindowsShown({1}) /\ [][NextDrag]_vars

\* Every object has its window; each is dragged along the x axis, with the
\* default mouse() and no GUI item active.
WindowInputs ==
    {inp \in FrameInputs :
        /\ ~inp.handled /\ ~inp.item_active /\ ~inp.mouse_right
        /\ inp.cursor[2] = 0}

NextWindows ==
    \/ InputPollReturns
    \/ \E inp \in WindowInputs : InputFrame(inp)
    \/ InputIterationEnd(MaxFrames)

SpecWindows == WindowsShown(Vis) /\ [][NextWindows]_vars

\* ------------------------------------------------------------ render_canvas
\* Lengths on the canvas are kept in the scale unit (1.0e-4): the grid
\* reaches 10.5 to either side of the camera.
GridHalf == 105000

RECURSIVE Pow10(_)
Pow10(n) == IF n = 0 THEN 1 ELSE 10 * Pow10(n - 1)

\* floor(log10(n / d)) for positive n and d.
RECURSIVE FloorLog10(_, _)
FloorLog10(n, d) ==
    IF n < d THEN FloorLog10(10 * n, d) - 1
    ELSE IF n >= 10 * d THEN FloorLog10(n, 10 * d) + 1
    ELSE 0

\* double gap = pow(10, -level) * scale; the scales drawn with are multiples
\* of the power of ten they are divided by.
Gap(level, scale) ==
    IF level <= 0 THEN scale.v * Pow10(0 - level) ELSE scale.v \div Pow10(level)

\* (int)ceil(a / b) and (int)floor(a / b) for a positive b.
CeilDiv(a, b) == 0 - ((0 - a) \div b)
FloorDiv(a, b) == a \div b

\* for (int x = lo; x <= hi; ++x) { emplace_back(x * gap - x0, -10.5, -z0);
\*                                   emplace_back(x * gap - x0, 10.5, -z0); }
LinesAlongY(x, hi, gap, x0, z0) ==
    [i \in 1..(IF x > hi THEN 0 ELSE 2 * (hi - x + 1)) |->
        <<(x + (i - 1) \div 2) * gap - x0,
          IF i % 2 = 1 THEN 0 - GridHalf ELSE GridHalf,
          0 - z0>>]

\* The same for the second loop: emplace_back(-10.5, y * gap - y0, -z0), ...
LinesAlongX(y, hi, gap, y0, z0) ==
    [i \in 1..(IF y > hi THEN 0 ELSE 2 * (hi - y + 1)) |->
        <<IF i % 2 = 1 THEN 0 - GridHalf ELSE GridHalf,
          (y + (i - 1) \div 2) * gap - y0,
          0 - z0>>]

\* What gen_grid_level appends after grid_lines.clear().
GridLevelLines(level, vp) ==
    LET gap == Gap(level, vp.scale)
        x0 == vp.world_xyz[1] * vp.scale.v
        y0 == vp.world_xyz[2] * vp.scale.v
        z0 == vp.world_xyz[3] * vp.scale.v
        x_lo == CeilDiv((0 - GridHalf) + x0, gap)
        x_hi == FloorDiv(GridHalf + x0, gap)
        y_lo == CeilDiv((0 - GridHalf) + y0, gap)
        y_hi == FloorDiv(GridHalf + y0, gap)
    IN  LinesAlongY(x_lo, x_hi, gap, x0, z0) \o LinesAlongX(y_lo, y_hi, gap, y0, z0)

\* Variant: the list is not cleared first.
GenGridLevel_NoClear(level, vp, lines) == lines \o GridLevelLines(level, vp)

\* gen_grid_level(level, grid_lines): the list as the call leaves it.
GenGridLevel(level, vp, lines) == GridLevelLines(level, vp)

\* draw_grid: level = log10f(scale * 5); the two lists it draws, the second
\* one staying in the static grid_lines.
DrawGrid(vp, lines) ==
    LET level == FloorLog10(5 * vp.scale.v, ScaleUnit)
        coarse == GenGridLevel(level - 1, vp, lines)
        fine == GenGridLevel(level, vp, coarse)
    IN  << [level |-> level - 1, vertices |-> coarse],
           [level |-> level, vertices |-> fine] >>

\* Colours: the Vector4f a single-colour record points at, and the values
\* user code puts into its colour vectors.
SolidColor(c) == 0 - c
PaletteColors == {1, 2}
Colors == PaletteColors \cup {SolidColor(c) : c \in DataRefs}

\* colors.resize(n): the elements kept, the new ones default-constructed
\* Eigen vectors, which hold whatever their storage held (pad, any colour,
\* taken to be the same for the elements one render adds).
Resize(buf, n, pad) == [i \in 1..n |-> IF i <= Len(buf) THEN buf[i] ELSE pad]

\* std::fill(colors.begin(), colors.end(), *record.color)
Fill(buf, c) == [i \in 1..Len(buf) |-> c]

\* std::copy(record.colors->begin(), record.colors->end(), colors.begin()),
\* as far as it stays inside the buffer.
Copy(src, buf) == [i \in 1..Len(buf) |-> IF i <= Len(src) THEN src[i] ELSE buf[i]]

\* std::copy writes past colors.end(): the source is longer than the buffer.
CopyOverruns(record, n) ==
    record.color = NULL /\ record.colors # NULL /\ Len(palette[record.colors]) > n

\* The colour buffer handed to the shader for one record.
RecordColors(record, buf) ==
    IF record.color # NULL THEN Fill(buf, SolidColor(record.color))
    ELSE IF record.colors # NULL THEN Copy(palette[record.colors], buf)
    ELSE buf

\* The loop of draw_positions over the records from the k-th on: the draw
\* calls issued, the static colour buffer and whether a copy overran it.
RECURSIVE DrawPositions(_, _, _, _)
DrawPositions(records, k, pad, acc) ==
    IF k > Len(records) THEN acc
    ELSE LET record == records[k]
             n == points[record.data]
         IN  IF n = 0 THEN DrawPositions(records, k + 1, pad, acc)
             ELSE LET buf == RecordColors(record, Resize(acc.colors, n, pad))
                      call == [mode |-> IF record.is_trajectory THEN "GL_LINE_STRIP"
                                                                ELSE "GL_POINTS",
                               record |-> k, data |-> record.data, count |-> n,
                               colors |-> buf]
                  IN  DrawPositions(records, k + 1, pad,
                                    [colors |-> buf,
                                     calls |-> Append(acc.calls, call),
                                     overrun |-> acc.overrun \/ CopyOverruns(record, n)])

\* LightVis::render_canvas on the window just processed: draw_grid, then
\* draw_positions.  A copy past the end of the colour buffer corrupts the
\* heap: the process goes on or dies.
RenderCanvas ==
    /\ InGui
    /\ shaders[cur]
    /\ \E pad \in Colors :
         LET grid == DrawGrid(viewport[cur], grid_lines)
             out == DrawPositions(position_records[cur], 1, pad,
                                  [colors |-> colors, calls |-> <<>>, overrun |-> FALSE])
         IN  /\ grid_lines' = grid[2].vertices
             /\ colors' = out.colors
             /\ gl' = [vis |-> cur, grid |-> grid, positions |-> out.calls,
                       overrun |-> out.overrun]
             /\ pc' \in (IF out.overrun THEN {"next", "crashed"} ELSE {"next"})
    /\ ev' = Event("render_canvas", cur, <<>>)
    /\ UNCHANGED <<objv, regv, it, cur, step, closing, ret, trace, draws, failed,
                   retried, ever_shown, shown_since_close, all_closing, body_ran,
                   lifev, inputv, points, palette, cbv, clicks>>

\* User code, in the gui() override of the window just processed, registers
\* a record with one of the four add_points / add_trajectory overloads.
AddInGui(traj, d, c, cs) ==
    /\ InGui
    /\ Len(position_records[cur]) < MaxRecords
    /\ position_records' = [position_records EXCEPT
                              ![cur] = PushBack(@, Record(traj, d, c, cs))]
    /\ ev' = Call(IF traj THEN "add_trajectory" ELSE "add_points", cur, <<d, c, cs>>)
    /\ UNCHANGED <<obj, window, program, shaders, regv, loopv, trace, draws, failed,
                   retried, ever_shown, shown_since_close, all_closing, body_ran,
                   lifev, inputv, canvasv, cbv, clicks>>

\* User code resizes one of its vectors of points.
ResizePoints(d, n) ==
    /\ InGui
    /\ points[d] # n
    /\ points' = [points EXCEPT ![d] = n]
    /\ ev' = Call("points", NULL, <<d, n>>)
    /\ UNCHANGED <<objv, regv, loopv, trace, draws, failed, retried, ever_shown,
                   shown_since_close, all_closing, body_ran, lifev, inputv,
                   palette, grid_lines, colors, gl, cbv, clicks>>

\* User code assigns one of its vectors of colours.
SetPalette(d, cs) ==
    /\ InGui
    /\ palette[d] # cs
    /\ palette' = [palette EXCEPT ![d] = cs]
    /\ ev' = Call("colors", NULL, <<d>>)
    /\ UNCHANGED <<objv, regv, loopv, trace, draws, failed, retried, ever_shown,
                   shown_since_close, all_closing, body_ran, lifev, inputv,
                   points, grid_lines, colors, gl, cbv, clicks>>

\* One window whose scale user code sets to any float (below, inside and
\* above the range, negative, zero, infinite, NaN) and which is scrolled up
\* and down, by less and by more than 600 in one frame; no button, no GUI.
ScaleValues ==
    {Num(0 - 5 * ScaleUnit), Num(0), Num(ScaleMin), Num(ScaleUnit),
     Num(ScaleMax), Num(2 * ScaleMax), PosInf, NegInf, NaN}
ScaleScrolls == {<<0, 0 - 300>>, <<0, 0 - 900>>, <<0, 600>>}
ScaleInput == Inp(FALSE, FALSE, FALSE, <<0, 0>>, FALSE, FALSE)

NextScale ==
    \/ \E h \in Handles, d \in ScaleScrolls : ScrollInputCallback(h, d)
    \/ \E x \in ScaleValues : SetScale(x)
    \/ InputPollReturns
    \/ InputFrame(ScaleInput)
    \/ InputIterationEnd(MaxFrames)

SpecScale == WindowsShown({1}) /\ [][NextScale]_vars

\* One window drawn with scales from 1.0e-4 to 1.0e4 (among them 0.2, where
\* 5 * scale is a power of ten) and the camera moved off the origin.
GridScales ==
    {Num(ScaleMin), Num(2000), Num(ScaleUnit), Num(3 * ScaleUnit),
     Num(25 * ScaleUnit), Num(ScaleMax)}
GridLocations == {<<0, 0, 0>>, <<1, 2, 0>>, <<0 - 2, 0, 1>>}

NextGrid ==
    \/ \E x \in GridScales : SetScale(x)
    \/ \E xyz \in GridLocations : SetLocation(xyz)
    \/ InputPollReturns
    \/ InputFrame(ScaleInput)
    \/ RenderCanvas
    \/ InputIterationEnd(MaxInputFrames)

SpecGrid == WindowsShown({1}) /\ [][NextGrid]_vars

\* One window to which records of the four kinds are added, the vectors
\* they point at being resized by user code between frames.
Palettes == {<<>>, <<1>>, <<2, 1>>, <<1, 2, 2>>}

NextPositions ==
    \/ \E d \in DataRefs : AddInGui(FALSE, d, d, NULL)
    \/ \E d \in DataRefs : AddInGui(FALSE, d, NULL, d)
    \/ \E d \in DataRefs : AddInGui(TRUE, d, d, NULL)
    \/ \E d \in DataRefs : AddInGui(TRUE, d, NULL, d)
    \/ \E d \in DataRefs, n \in 0..MaxPoints : ResizePoints(d, n)
    \/ \E d \in DataRefs, cs \in Palettes : SetPalette(d, cs)
    \/ InputPollReturns
    \/ InputFrame(ScaleInput)
    \/ RenderCanvas

SpecPositions == WindowsShown({1}) /\ [][NextPositions]_vars

\* ------------------------- create_window and destroy_window, by statement
\* The statements of create_window that follow a successful
\* glfwCreateWindow, in program order: the entry in the active map, the
\* GUI program, the four glfwSet*Callback calls, the load hooks.
CreateStatements == <<"register", "program", "callbacks", "load">>

\* Variant: the map entry is erased before the callbacks are removed.
DestroyStatements_EraseFirst == <<"unload", "erase", "callbacks", "glfwDestroyWindow">>

\* The statements of destroy_window, in program order: the unload hooks,
\* the glfwSet*Callback(window, nullptr) calls, the erase from the active
\* map, glfwDestroyWindow with the memset of the context.
DestroyStatements == <<"unload", "callbacks", "erase", "glfwDestroyWindow">>

\* create_window where glfwCreateWindow returns null.
CreateWindowFails ==
    /\ cw = NoCall
    /\ SpawnCreateFails

\* create_window up to the return of glfwCreateWindow with handle h.
CreateWindowBegin ==
    /\ pc = "spawn" /\ cw = NoCall /\ NextAwaiting # {}
    /\ obj[Min(NextAwaiting)] = "alive"
    /\ LET v == Min(NextAwaiting) IN
         /\ \E h \in Handles \ native :
              /\ window' = [window EXCEPT ![v] = h]
              /\ native' = native \cup {h}
              /\ should_close' = should_close \ {h}
         /\ creates' = [creates EXCEPT ![v] = @ + 1]
         /\ retried' = (retried \/ failed[v])
         /\ cw' = [op |-> "create_window", vis |-> v, k |-> 1]
         /\ clicks' = [clicks EXCEPT ![v].fresh = TRUE]
         /\ ev' = Event("glfwCreateWindow", v, <<>>)
    /\ UNCHANGED <<obj, program, shaders, position_records, awaiting, active, loopv,
                   trace, draws, failed, ever_shown, shown_since_close, all_closing,
                   body_ran, spawning, loaded, inspected, inputv, canvasv, callbacks>>

\* The next statement of the create_window call in progress.  The load()
\* override calls show() on S; a Shader of detail->load() that fails to
\* build ends the process with exit(0).
CreateWindowStatement ==
    /\ pc = "spawn" /\ cw.op = "create_window"
    /\ LET v == cw.vis
           h == window[cw.vis]
           s == CreateStatements[cw.k]
       IN
         /\ active' = IF s = "register" THEN [active EXCEPT ![h] = v] ELSE active
         /\ callbacks' = IF s = "callbacks" THEN callbacks \cup {h} ELSE callbacks
         /\ IF s = "program"
              THEN \E built \in BOOLEAN :
                     program' = [program EXCEPT ![v] = IF built THEN "ok" ELSE "bad"]
              ELSE UNCHANGED program
         /\ IF s = "load"
              THEN \E S \in SUBSET Vis, built \in BOOLEAN :
                     IF built
                       THEN /\ shaders' = [shaders EXCEPT ![v] = TRUE]
                            /\ loaded' = [loaded EXCEPT ![v] = TRUE]
                            /\ awaiting' = awaiting \cup ShowTargets(S, window)
                            /\ ShowCalled(Callable(S), {v})
                            /\ ev' = Event(s, v, <<"detail->load", "load">>)
                            /\ pc' = pc
                       ELSE /\ ev' = Event(s, v, <<"exit">>)
                            /\ pc' = "exited"
                            /\ UNCHANGED <<shaders, loaded, awaiting, failed, ever_shown,
                                           shown_since_close>>
              ELSE /\ ev' = Event(s, v, <<>>)
                   /\ UNCHANGED <<pc, shaders, loaded, awaiting, failed, ever_shown,
                                  shown_since_close>>
         /\ it' = IF cw.k = Len(CreateStatements) THEN v ELSE it
         /\ cw' = IF cw.k = Len(CreateStatements) THEN NoCall ELSE [cw EXCEPT !.k = @ + 1]
    /\ UNCHANGED <<obj, window, position_records, native, should_close, cur, step,
                   closing, ret, trace, draws, retried, all_closing, body_ran, creates,
                   spawning, inspected, inputv, canvasv, clicks>>

\* hide() on the head of the closing list: the window test, then the call
\* of destroy_window, which starts with activate_context.
HideClosing ==
    /\ pc = "closing" /\ closing # <<>> /\ cw = NoCall
    /\ IF window[Head(closing)] # NULL
         THEN /\ cw' = [op |-> "destroy_window", vis |-> Head(closing), k |-> 1]
              /\ UNCHANGED closing
         ELSE /\ closing' = Tail(closing)
              /\ UNCHANGED cw
    /\ ev' = Event("hide", Head(closing), <<>>)
    /\ UNCHANGED <<objv, regv, pc, it, cur, step, ret, trace, draws, failed, retried,
                   ever_shown, shown_since_close, all_closing, body_ran, lifev, inputv,
                   canvasv, callbacks, clicks>>

\* The next statement of the destroy_window call in progress, taken from
\* the sequence order.  The unload() override calls show() on S.
DestroyWindowStep(order) ==
    /\ pc = "closing" /\ cw.op = "destroy_window"
    /\ LET v == cw.vis
           h == window[cw.vis]
           s == order[cw.k]
       IN
         /\ IF s = "unload"
              THEN \E S \in SUBSET Vis :
                     /\ awaiting' = awaiting \cup ShowTargets(S, window)
                     /\ ShowCalled(Callable(S), {})
                     /\ shaders' = [shaders EXCEPT ![v] = FALSE]
                     /\ loaded' = [loaded EXCEPT ![v] = FALSE]
                     /\ ev' = Event(s, v, <<"unload", "detail->unload">>)
              ELSE /\ ev' = Event(s, v, <<>>)
                   /\ UNCHANGED <<awaiting, failed, ever_shown, shown_since_close, shaders,
                                  loaded>>
         /\ callbacks' = IF s = "callbacks" THEN callbacks \ {h} ELSE callbacks
         /\ active' = IF s = "erase" THEN [active EXCEPT ![h] = NULL] ELSE active
         /\ IF s = "glfwDestroyWindow"
              THEN /\ native' = native \ {h}
                   /\ should_close' = should_close \ {h}
                   /\ window' = [window EXCEPT ![v] = NULL]
                   /\ program' = [program EXCEPT ![v] = "none"]
              ELSE UNCHANGED <<native, should_close, window, program>>
         /\ closing' = IF cw.k = Len(order) THEN Tail(closing) ELSE closing
         /\ cw' = IF cw.k = Len(order) THEN NoCall ELSE [cw EXCEPT !.k = @ + 1]
    /\ UNCHANGED <<obj, position_records, pc, it, cur, step, ret, trace, draws, retried,
                   all_closing, body_ran, creates, spawning, inspected, inputv, canvasv, clicks>>

DestroyWindowStatement == DestroyWindowStep(DestroyStatements)

\* GLFW delivers an event to a callback installed on handle h: the callback
\* starts with active_windows().at(win), which throws when h is no key.
CallbackInvoked(h) ==
    /\ pc = "poll"
    /\ h \in callbacks
    /\ ev.op # "callback"
    /\ pc' = IF active[h] = NULL THEN "crashed" ELSE pc
    /\ ev' = Event("callback", active[h], <<>>)
    /\ UNCHANGED <<objv, regv, it, cur, step, closing, ret, trace, draws, failed,
                   retried, ever_shown, shown_since_close, all_closing, body_ran, lifev,
                   inputv, canvasv, cbv, clicks>>

NextCallbacks ==
    \/ \E v \in Vis : Construct(v)
    \/ \E v \in Vis : Show(v)
    \/ CallMain
    \/ LoopCheck
    \/ CreateWindowFails
    \/ CreateWindowBegin
    \/ CreateWindowStatement
    \/ SpawnEnd
    \/ \E h \in Handles : CallbackInvoked(h)
    \/ PollEvents
    \/ CloseInspect
    \/ HideClosing
    \/ DestroyWindowStatement
    \/ CloseEnd
    \/ NextWindow
    \/ FrameStep
    \/ GuiReturn
    \/ Terminate

SpecCallbacks == Init /\ [][NextCallbacks]_vars

\* --------------------------------------------------------- button presses
\* The time steps between two button callbacks, in hundredths of a second:
\* on the two limits of the double-click window, just inside them, and a
\* step that leaves the window.
ClickGaps == {2, 3, 19, 20, 30}

\* One window, any sequence of button callbacks: left presses at every gap,
\* a left release and a right press, with frames in between.
NextClicks ==
    \/ \E h \in Handles, d \in ClickGaps : MouseInputCallback(h, "left", "press", ClickAt, d)
    \/ \E h \in Handles : MouseInputCallback(h, "left", "release", ClickAt, 1)
    \/ \E h \in Handles : MouseInputCallback(h, "right", "press", ClickAt, 1)
    \/ InputPollReturns
    \/ InputFrame(ScaleInput)
    \/ InputIterationEnd(MaxInputFrames)

SpecClicks == WindowsShown({1}) /\ [][NextClicks]_vars

\* The time steps between the button callbacks of a window that is closed
\* and shown again: inside the double-click window.
ReopenGaps == {10}

\* Two windows that take left presses while main() runs its whole loop:
\* windows are closed by the user or hidden and shown by gui() and the
\* unload() hook, and created again by the next iteration.
NextReopen ==
    \/ \E h \in Handles, d \in ReopenGaps : MouseInputCallback(h, "left", "press", ClickAt, d)
    \/ \E v \in Vis : Show(v)
    \/ \E v \in Vis : Hide(v)
    \/ LoopCheck
    \/ SpawnCreateFails
    \/ SpawnCreateOk
    \/ SpawnEnd
    \/ PollEvents
    \/ CloseInspect
    \/ CloseStep
    \/ CloseEnd
    \/ NextWindow
    \/ FrameStep
    \/ GuiReturn
    \/ Terminate

SpecReopen == WindowsShown(Vis) /\ [][NextReopen]_vars

\* --------------------------------------------------------- typed characters
\* character_input_callback in a glfwPollEvents that delivers any number of
\* code points to the window.
CharacterInput(h, codepoint) ==
    /\ pc = "poll" /\ polled < MaxTyped
    /\ h \in ActiveKeys
    /\ events' = [events EXCEPT ![active[h]].characters = Queued(@, codepoint)]
    /\ polled' = polled + 1
    /\ ev' = Call("character_input_callback", active[h], <<codepoint>>)
    /\ UNCHANGED <<objv, regv, loopv, trace, draws, canvasv, cbv, clicks, failed, retried,
                   ever_shown, shown_since_close, all_closing, body_ran, lifev, viewport,
                   mouse_states, last_ypr, now, pe, anchor, quiet, frames>>

\* The text typed during one poll: code points that all differ, so that a
\* queue shows which of them it holds and in which order.
TypedText == [i \in 1..MaxTyped |-> 64 + i]

\* One window that is typed into faster than its frames run.
NextCharacters ==
    \/ \E h \in Handles : CharacterInput(h, TypedText[polled + 1])
    \/ InputPollReturns
    \/ InputFrame(ScaleInput)
    \/ InputIterationEnd(MaxInputFrames)

SpecCharacters == WindowsShown({1}) /\ [][NextCharacters]_vars

\* ------------------------------------------------------------- properties

\* C1: main() reaches glfwTerminate only in a state where the active-window
\* map and the awaiting set are both empty, so that no native window exists
\* when GLFW is terminated; as long as one of them holds an entry the loop
\* goes on.
C1_TerminateOnlyWhenEmpty ==
    pc = "terminate" => ActiveKeys = {} /\ awaiting = {} /\ native = {}

\* GLFW is about to be terminated after the loop body ran at least once.
C1_Witness == pc = "terminate" /\ body_ran /\ all_closing

\* C2: an iteration whose close inspection finds the close flag of every
\* active window set, and after which show() is not called, is the last one:
\* main() finishes it, leaves the loop at the next test of the loop condition
\* and returns EXIT_SUCCESS; and when show() was never called main() returns
\* EXIT_SUCCESS without running the loop body.
C2_ClosingEndsLoop ==
    /\ [](pc = "check" /\ body_ran /\ all_closing /\ ~shown_since_close
            => ActiveKeys = {} /\ awaiting = {})
    /\ (pc = "closing" /\ all_closing) ~> (pc = "returned" \/ shown_since_close)
    /\ [](pc = "returned" => ret = "EXIT_SUCCESS")
    /\ (pc = "check" /\ ~ever_shown) ~> (pc = "returned" /\ ~body_ran)

\* main() returned from an iteration that closed every window, no creation
\* having failed.
C2_Witness ==
    /\ pc = "returned" /\ ret = "EXIT_SUCCESS"
    /\ body_ran /\ all_closing /\ ~shown_since_close
    /\ \A v \in Vis : obj[v] = "alive" /\ ~failed[v]

\* The order the claim states for the steps of one window.
FrameOrder ==
    <<"activate_context", "process_events", "gui", "render_canvas", "render_gui",
      "present">>

\* C3: after glfwPollEvents the steps performed on the active windows come in
\* blocks, one window at a time: each block runs activate_context,
\* process_events, gui, render_canvas, render_gui, present in this order on
\* one window, no window has two blocks, and at the end of the iteration
\* every window still in the active map has had its block.
C3_FrameOrder ==
    /\ \A i \in 1..Len(trace) :
         LET k == ((i - 1) % Len(FrameOrder)) + 1 IN
         /\ trace[i].step = FrameOrder[k]
         /\ k > 1 => trace[i].vis = trace[i - 1].vis
    /\ \A i, j \in 1..Len(trace) :
         (i # j /\ trace[i].step = trace[j].step) => trace[i].vis # trace[j].vis
    /\ (pc = "check" /\ body_ran) =>
         \A h \in ActiveKeys :
           \E i \in 1..Len(trace) : trace[i] = [vis |-> active[h], step |-> "present"]

\* An iteration ended with two windows processed, both still active.
C3_Witness ==
    /\ pc = "check"
    /\ Len(trace) = 2 * Len(FrameOrder)
    /\ Cardinality(ActiveKeys) = 2

\* C4: in every iteration, draw(w, h) has been invoked once on a window by the
\* time its buffers are swapped.
C4_DrawOncePerFrame ==
    \A i \in 1..Len(trace) : trace[i].step = "present" => draws[trace[i].vis] = 1

\* C5: a step taken outside main() changes neither the awaiting set nor the
\* active-window map.
C5_RegistriesOnlyInLoop ==
    [][OutsideMain => awaiting' = awaiting /\ active' = active]_vars

\* C5 as amended: a step taken outside main() leaves the active-window map
\* and the native windows alone and removes nothing from the awaiting set;
\* what it may do is insert into the awaiting set, which is what show() does.
C5_ActiveOnlyInLoop ==
    [][OutsideMain =>
         /\ active' = active
         /\ native' = native
         /\ awaiting \subseteq awaiting'
         /\ (awaiting' # awaiting => ev'.op = "show")]_vars

\* show() has put an object into the awaiting set while main() is not running.
C5_Witness == OutsideMain /\ ev.op = "show" /\ ev.vis \in awaiting

\* C6: a GUI program that failed to compile or link ends the process, and no
\* render_gui runs with such a program.
C6_ShaderFailureIsFatal ==
    /\ \A v \in Vis : program[v] = "bad" => pc = "exited"
    /\ \A i \in 1..Len(trace) :
         trace[i].step = "render_gui" => program[trace[i].vis] # "bad"

\* C7: a create_window whose glfwCreateWindow returned null ends the process.
C7_CreateFailureIsFatal == \A v \in Vis : failed[v] => pc = "exited"

\* The process is past the spawn phase the last create_window belongs to (it
\* may also have ended inside that phase: exit(0), or the fault of a call on
\* stale storage).
SpawnPhaseOver ==
    /\ pc \notin {"spawn", "exited"}
    /\ ~(pc = "crashed" /\ ev.op = "create_window")

\* C8: an object whose create_window failed, and on which show() was not
\* called since, has no native window, is not in the active map, is out of
\* the awaiting set once the spawn phase is over, had no hook invoked by the
\* failed call, and create_window is not invoked on it again.
C8_NoRetry ==
    /\ ~retried
    /\ \A v \in Vis : failed[v] =>
         /\ window[v] = NULL
         /\ v \notin ActiveVis
         /\ SpawnPhaseOver => v \notin awaiting
    /\ (ev.op = "create_window" /\ failed[ev.vis]) => ev.hooks = <<>>

\* The loop went on to render another window after a creation failed.
C8_Witness ==
    \E v \in Vis : failed[v] /\ pc = "frame" /\ cur # v /\ step = NumFrameSteps - 1

\* C9: a step changes the record list of a living object only by appending
\* one record, every record has exactly one of color / colors set, and the
\* last record after add_points / add_trajectory is the one the call
\* describes: is_trajectory false / true, the data passed, and the colour
\* reference passed in the field of its overload.
C9_ListAppend ==
    /\ [][\A v \in Vis : (obj[v] = "alive" /\ obj'[v] = "alive") =>
            \/ position_records'[v] = position_records[v]
            \/ /\ Len(position_records'[v]) = Len(position_records[v]) + 1
               /\ SubSeq(position_records'[v], 1, Len(position_records[v]))
                    = position_records[v]]_vars
    /\ [](\A v \in Vis : \A i \in 1..Len(position_records[v]) :
            (position_records[v][i].color = NULL)
                # (position_records[v][i].colors = NULL))
    /\ [](ev.op \in {"add_points", "add_trajectory"} =>
            LET rs == position_records[ev.vis]
                r == rs[Len(rs)]
            IN  /\ Len(rs) > 0
                /\ r.is_trajectory = (ev.op = "add_trajectory")
                /\ r.data = ev.args[1]
                /\ ev.args[2] = "color" => r.color = ev.args[3] /\ r.colors = NULL
                /\ ev.args[2] = "colors" => r.colors = ev.args[3] /\ r.color = NULL)

\* A trajectory with per-vertex colours was added after a point set with a
\* single colour.
C9_Witness ==
    \E v \in Vis :
        /\ Len(position_records[v]) = 2
        /\ position_records[v][1] = Record(FALSE, 1, 1, NULL)
        /\ position_records[v][2].is_trajectory
        /\ position_records[v][2].color = NULL
        /\ ev.op = "add_trajectory"

\* C10: a destroyed object is in neither registry and has no native window.
C10_DestroyReleases ==
    \A v \in Vis : obj[v] = "dead" =>
        /\ v \notin awaiting
        /\ v \notin ActiveVis
        /\ window[v] \notin native

\* C12: show() on an object without a native window inserts it into the
\* awaiting set, show() on an object with one changes no registry, and in both
\* cases nothing else changes (so repeating it changes nothing either); every
\* object the spawn phase found awaiting has had create_window invoked exactly
\* once when the phase ends, a successful create_window leaves the object
\* under exactly one handle, and no object ever owns two native windows.
C12_ShowIdempotent ==
    /\ [][\A v \in Vis : (ev'.op = "show" /\ ev'.vis = v) =>
            /\ awaiting' = (IF window[v] = NULL THEN awaiting \cup {v} ELSE awaiting)
            /\ UNCHANGED <<objv, active, native, should_close>>]_vars
    /\ [](\A v \in Vis : creates[v] <= 1)
    /\ [](pc = "poll" => \A v \in spawning : creates[v] = 1)
    /\ [](\A v \in Vis : Cardinality({h \in native : active[h] = v}) <= 1)
    /\ [][(ev'.op = "create_window" /\ ev'.hooks # <<>>) =>
            Cardinality({h \in native' : active'[h] = ev'.vis}) = 1]_vars

\* A spawn phase ended in which every object was awaiting and got its window.
C12_Witness ==
    /\ pc = "poll" /\ spawning = Vis
    /\ \A v \in Vis : creates[v] = 1 /\ window[v] # NULL

\* C13: handle h maps to object v in the active map exactly when v's
\* context.window is h; no object is the value of two handles; and once the
\* spawn phase is over no object in the awaiting set has a native window.
C13_RegistryAgrees ==
    /\ \A h \in Handles, v \in Vis : (active[h] = v) <=> (window[v] = h)
    /\ \A h1, h2 \in ActiveKeys : active[h1] = active[h2] => h1 = h2
    /\ SpawnPhaseOver => \A v \in awaiting : window[v] = NULL

\* Inside a gui() override: one object has its window, another one was
\* hidden and is awaiting again.
C13_Witness ==
    /\ pc = "gui"
    /\ \E v, w \in Vis :
         /\ window[v] # NULL /\ active[window[v]] = v
         /\ ev = Event("show", w, <<>>) /\ w \in awaiting /\ window[w] = NULL

\* C14: from the end of the close phase to the end of the iteration a window
\* the inspection found closing has no native window, is not in the active
\* map and has no per-frame step performed on it; right after the close
\* phase every window found open is still in the active map, and at the end
\* of the iteration each of them that is still active has been presented;
\* an object enters the awaiting set only when show() is called, and
\* create_window runs only on members of the awaiting set.
C14_ClosingHidden ==
    /\ [](pc \in {"next", "frame", "gui", "check"} =>
            \A v \in inspected.closing :
                /\ window[v] = NULL
                /\ v \notin ActiveVis
                /\ \A i \in 1..Len(trace) : trace[i].vis # v)
    /\ []((pc = "next" /\ it = NULL) => inspected.open \subseteq ActiveVis)
    /\ []((pc = "check" /\ body_ran) =>
            \A v \in inspected.open \cap ActiveVis :
                \E i \in 1..Len(trace) : trace[i] = [vis |-> v, step |-> "present"])
    /\ [][/\ awaiting' \ awaiting # {} => shown_since_close'
          /\ (pc = "spawn" /\ ev'.op = "create_window") => ev'.vis \in awaiting]_vars

\* A frame runs on an open window in an iteration that closed another one.
C14_Witness ==
    /\ pc = "frame" /\ step = NumFrameSteps - 1
    /\ inspected.closing # {}
    /\ cur \in inspected.open

\* C15: a create_window that reaches the hooks runs the internal load and
\* then load(), on an object that was not loaded, and leaves it registered
\* under its native window; a destroy_window runs unload() and then the
\* internal unload, on an object that was loaded, whose native window exists
\* and is registered when the hooks run (a show() of the object from its own
\* unload() finds the window still there and does nothing).
C15_LoadUnloadAlternate ==
    [][/\ (ev'.op = "create_window" /\ ev'.hooks # <<>>) =>
            LET v == ev'.vis IN
            /\ ev'.hooks = <<"detail->load", "load">>
            /\ ~shaders[v] /\ shaders'[v]
            /\ window[v] = NULL
            /\ window'[v] \in native' /\ active'[window'[v]] = v
       /\ (ev'.op \in {"hide", "~LightVis"} /\ ev'.hooks # <<>>) =>
            LET v == ev'.vis IN
            /\ ev'.hooks \in {<<"unload", "detail->unload">>,
                              <<"LightVis::unload", "detail->unload">>}
            /\ shaders[v] /\ ~shaders'[v]
            /\ window[v] \in native /\ active[window[v]] = v
            /\ v \in awaiting' => v \in awaiting]_vars

\* A window was destroyed by hide(), its unload() having shown another object.
C15_Witness ==
    /\ ev.op = "hide" /\ ev.hooks = <<"unload", "detail->unload">>
    /\ ~shaders[ev.vis] /\ ev.vis \notin awaiting
    /\ awaiting # {}

\* C16: when an object is gone, every run of its load() override has been
\* matched by a run of its unload() override.
C16_UnloadMatched == \A v \in Vis : obj[v] = "dead" => ~loaded[v]

\* The step is the frame loop's body run on window v.
FrameOn(v) == pc = "next" /\ it' # it /\ pe'.vis = v

\* C11: the camera a window has after its process_events comes from that
\* window alone: when the built-in camera control runs, yaw and pitch are
\* the window's own angles of its own last button-free frame (its current
\* ones in a button-free frame) turned by its own drag, and the scale is its
\* own scale changed by its own scroll.
C11_WindowsIndependent ==
    [][\A v \in Vis : (FrameOn(v) /\ CameraRuns(pe'.inp)) =>
          LET own == IF AnyButton(pe'.inp) THEN anchor[v].ypr
                                           ELSE viewport[v].viewport_ypr
              drag == Sub2(pe'.inp.cursor, anchor'[v].pos)
          IN  /\ viewport'[v].viewport_ypr[1] = own[1] - (drag[1] * AngleUnit) \div DragDivisor
              /\ viewport'[v].viewport_ypr[2] = own[2] - (drag[2] * AngleUnit) \div DragDivisor
              /\ viewport'[v].scale = NewScale(viewport[v].scale, events[v].scroll_offset[2])
       ]_vars

\* C17: process_events hands nuklear the queued characters in queue order,
\* the accumulated scroll offset and the pending double-click with its
\* position, and leaves the queue empty, double_click false and
\* scroll_offset zero (so the double-click is reported by this frame only);
\* the scroll callback adds to the offset and the character callback appends
\* to the queue.
C17_InputConsumed ==
    /\ [][\A v \in Vis : FrameOn(v) =>
            /\ pe'.nk.characters = events[v].characters
            /\ pe'.nk.scroll = events[v].scroll_offset
            /\ pe'.nk.double.down = events[v].double_click
            /\ pe'.nk.double.position = events[v].double_click_position
            /\ events'[v].characters = <<>>
            /\ ~events'[v].double_click
            /\ events'[v].scroll_offset = <<0, 0>>]_vars
    /\ [][ev'.op = "scroll_input_callback" =>
            \E d \in {ScrollStep} :
              events'[ev'.vis].scroll_offset = Add2(events[ev'.vis].scroll_offset, d)]_vars
    /\ [][ev'.op = "character_input_callback" =>
            \E c \in CodePoints :
              events'[ev'.vis].characters = Append(events[ev'.vis].characters, c)]_vars
    /\ [](\A v \in Vis : (pc = "next" /\ pe.vis = v /\ it # NULL) =>
            /\ events[v].characters = <<>>
            /\ ~events[v].double_click)

\* A frame forwarded two typed characters in the order they were typed and
\* left the queue empty.
C17_Witness ==
    /\ pc = "next" /\ pe.vis = 1 /\ it # NULL
    /\ pe.nk.characters = <<66, 65>>
    /\ events[1].characters = <<>>

\* C18: in a frame where a GUI item is active, mouse() is not called and
\* the stored MouseStates and the camera are left as they are; in a frame
\* where mouse() returns true, yaw, pitch and scale are left as they are; in
\* both cases the pending scroll and double-click are cleared.
C18_HookDecides ==
    [][\A v \in Vis : FrameOn(v) =>
          /\ pe'.inp.item_active =>
                /\ ~pe'.mouse_called
                /\ mouse_states'[v] = mouse_states[v]
                /\ viewport'[v] = viewport[v]
          /\ (~pe'.inp.item_active /\ pe'.inp.handled) =>
                /\ pe'.mouse_called
                /\ viewport'[v].viewport_ypr = viewport[v].viewport_ypr
                /\ viewport'[v].scale = viewport[v].scale
          /\ (pe'.inp.item_active \/ pe'.inp.handled) =>
                /\ events'[v].scroll_offset = <<0, 0>>
                /\ ~events'[v].double_click]_vars

\* mouse() returned true in a frame with the left button down away from the
\* anchor, a scroll and a double-click pending: the camera is as constructed.
C18_Witness ==
    /\ pc = "next" /\ pe.vis = 1
    /\ pe.inp.handled /\ pe.mouse_called /\ pe.inp.mouse_left
    /\ pe.nk.scroll[2] # 0 /\ pe.nk.double.down
    /\ mouse_states[1].mouse_drag_position # mouse_states[1].mouse_normal_position
    /\ viewport[1] = DefaultViewport
    /\ events[1].scroll_offset = <<0, 0>> /\ ~events[1].double_click

\* C19: with the default mouse(), a frame with no button pressed leaves yaw
\* and pitch as they are; and no frame changes roll, the viewport distance
\* or the world offset.
C19_QuietFrame ==
    [][\A v \in Vis : FrameOn(v) =>
          /\ ~AnyButton(pe'.inp) =>
                /\ viewport'[v].viewport_ypr[1] = viewport[v].viewport_ypr[1]
                /\ viewport'[v].viewport_ypr[2] = viewport[v].viewport_ypr[2]
          /\ viewport'[v].viewport_ypr[3] = viewport[v].viewport_ypr[3]
          /\ viewport'[v].viewport_distance = viewport[v].viewport_distance
          /\ viewport'[v].world_xyz = viewport[v].world_xyz]_vars

\* A button-free frame ran after a drag had turned the view and user code
\* had moved the world offset.
C19_Witness ==
    /\ pc = "next" /\ pe.vis = 1 /\ it # NULL
    /\ ~AnyButton(pe.inp) /\ ~pe.inp.item_active
    /\ viewport[1].viewport_ypr # DefaultViewport.viewport_ypr
    /\ viewport[1].world_xyz # DefaultViewport.world_xyz

\* C20: in a frame with a button held, once a button-free frame was seen,
\* mouse_normal_position is the cursor position of the last button-free
\* frame, and yaw and pitch are the angles of that frame minus a tenth of a
\* degree per pixel of the cursor's offset from that position.
C20_DragFromAnchor ==
    [][\A v \in Vis : (FrameOn(v) /\ AnyButton(pe'.inp) /\ quiet[v].seen) =>
          LET d == Sub2(pe'.inp.cursor, quiet[v].pos) IN
          /\ mouse_states'[v].mouse_normal_position = quiet[v].pos
          /\ viewport'[v].viewport_ypr[1] * DragDivisor
                = quiet[v].ypr[1] * DragDivisor - d[1] * AngleUnit
          /\ viewport'[v].viewport_ypr[2] * DragDivisor
                = quiet[v].ypr[2] * DragDivisor - d[2] * AngleUnit]_vars

\* C20 as amended: frames in which a GUI item is active neither move the
\* anchor nor turn the view; in a frame with a button held and no GUI item
\* active, mouse_normal_position is the cursor position of the last frame
\* that had no button pressed and no GUI item active (the origin before the
\* first such frame), and yaw and pitch are the angles of that frame (zero
\* before the first) minus a tenth of a degree per pixel of the cursor's
\* offset from that position, so that a cursor back at that position gives
\* those angles again.
C20_DragFromAnchorNoGui ==
    [][\A v \in Vis : FrameOn(v) =>
          /\ pe'.inp.item_active =>
                /\ mouse_states'[v].mouse_normal_position
                      = mouse_states[v].mouse_normal_position
                /\ viewport'[v].viewport_ypr = viewport[v].viewport_ypr
          /\ (AnyButton(pe'.inp) /\ ~pe'.inp.item_active) =>
                LET d == Sub2(pe'.inp.cursor, anchor[v].pos) IN
                /\ mouse_states'[v].mouse_normal_position = anchor[v].pos
                /\ viewport'[v].viewport_ypr[1] * DragDivisor
                      = anchor[v].ypr[1] * DragDivisor - d[1] * AngleUnit
                /\ viewport'[v].viewport_ypr[2] * DragDivisor
                      = anchor[v].ypr[2] * DragDivisor - d[2] * AngleUnit
                /\ pe'.inp.cursor = anchor[v].pos =>
                      /\ viewport'[v].viewport_ypr[1] = anchor[v].ypr[1]
                      /\ viewport'[v].viewport_ypr[2] = anchor[v].ypr[2]]_vars

\* A drag that started at (3, 0) with the view as constructed has reached
\* (3, 4): the pitch is four tenths of a degree lower, the yaw as it was.
C20_Witness ==
    /\ pc = "next" /\ pe.vis = 1 /\ it # NULL
    /\ AnyButton(pe.inp) /\ ~pe.inp.item_active
    /\ anchor[1] = [pos |-> <<3, 0>>, ypr |-> DefaultViewport.viewport_ypr]
    /\ pe.inp.cursor = <<3, 4>>
    /\ viewport[1].viewport_ypr[1] = DefaultViewport.viewport_ypr[1]
    /\ viewport[1].viewport_ypr[2] = DefaultViewport.viewport_ypr[2] - 4

\* A float lies in the closed range [1.0e-4, 1.0e4].
InScaleRange(x) == x.k = "num" /\ x.v >= ScaleMin /\ x.v <= ScaleMax

\* C21: after every process_events in which the built-in camera control
\* ran, the scale lies in the closed range [1.0e-4, 1.0e4], whatever the
\* accumulated scroll and whatever the scale was before.
C21_ScaleInRange ==
    [][\A v \in Vis : (FrameOn(v) /\ CameraRuns(pe'.inp)) =>
          InScaleRange(viewport'[v].scale)]_vars

\* The integers k for which k * gap lies within 10.5 of the offset o.
GridIndices(gap, o) ==
    {k \in ((o - GridHalf) \div gap) - 1 .. ((o + GridHalf) \div gap) + 1 :
        k * gap - o >= 0 - GridHalf /\ k * gap - o <= GridHalf}

\* 10^level <= 5 * scale < 10^(level + 1)
IsFloorLog10(level, n, d) ==
    IF level >= 0
      THEN Pow10(level) * d <= n /\ n < Pow10(level + 1) * d
      ELSE d <= n * Pow10(0 - level) /\ n * Pow10((0 - level) - 1) < d

\* The list holds one line across the grid for every index of K, at
\* coordinate k * gap - o on axis a, from -10.5 to 10.5 on the other axis b,
\* starting after the first `from` vertices.
HoldsLines(vertices, from, K, gap, o, a, b, z0) ==
    /\ \A j \in 1..Cardinality(K) :
          LET p == vertices[from + 2 * j - 1]
              q == vertices[from + 2 * j]
          IN  /\ p[a] = q[a]
              /\ p[a] >= 0 - GridHalf /\ p[a] <= GridHalf
              /\ p[b] = 0 - GridHalf /\ q[b] = GridHalf
              /\ p[3] = 0 - z0 /\ q[3] = 0 - z0
    /\ {vertices[from + 2 * j][a] : j \in 1..Cardinality(K)} = {k * gap - o : k \in K}

C23_HideSemantics ==
    [][\A v \in Vis : (ev'.op = "hide" /\ ev'.vis = v) =>
          IF window[v] # NULL
            THEN /\ window'[v] = NULL
                 /\ program'[v] = "none"
                 /\ window[v] \notin native'
                 /\ \A h \in Handles : active'[h] # v
            ELSE /\ UNCHANGED <<objv, regv>>
                 /\ ev'.hooks = <<>>
       ]_vars

\* hide() was called on an object that had no window and was awaiting one,
\* in a gui() override whose own window an earlier hide() had destroyed.
C23_Witness ==
    /\ ev.op = "hide" /\ ev.hooks = <<>>
    /\ ev.vis \in awaiting /\ window[ev.vis] = NULL
    /\ pc = "gui" /\ window[cur] = NULL

\* C24: no show() request is lost: an object leaves the awaiting set only
\* after create_window was invoked on it in the running spawn phase, also
\* when the request was made by a load() override during that phase.
C24_NoLostShow ==
    [][\A v \in Vis : (v \in awaiting /\ v \notin awaiting') => creates[v] >= 1]_vars

\* C25: each of the per-frame steps activate_context, process_events, gui,
\* render_canvas, render_gui and present is invoked on an object that at
\* that moment has a native window registered for it in the active map,
\* also after a gui() override called hide().
C25_StepsOnRegistered ==
    [][(pc = "frame" /\ step < NumFrameSteps /\ ev'.op = FrameStepName(step + 1)) =>
          /\ window[cur] # NULL
          /\ active[window[cur]] = cur]_vars

\* C26: whenever the GLFW callbacks are installed on a native window, its
\* handle is a key of the active-window map: create_window installs them
\* after the registration and destroy_window removes them before the erase,
\* so the lookup active_windows().at(win) that opens every callback finds
\* its entry.
C26_CallbacksRegistered ==
    /\ \A h \in callbacks : active[h] # NULL
    /\ (ev.op = "callback" => ev.vis # NULL /\ pc # "crashed")

\* destroy_window has removed the callbacks and the entry is still there,
\* after a callback was delivered in this iteration's poll.
C26_Witness ==
    /\ cw.op = "destroy_window"
    /\ DestroyStatements[cw.k] = "erase"
    /\ window[cw.vis] \notin callbacks
    /\ active[window[cw.vis]] = cw.vis
    /\ callbacks # {}

\* C27: a left press at time t is a double-click exactly when
\* t - last_left_click_time lies strictly between 0.02 s and 0.2 s: then
\* double_click is set and the cursor position recorded, otherwise
\* last_left_click_time becomes t.  The first left press after the window
\* was created is never a double-click; a left release and any callback of
\* another button leave the events as they were.
C27_DoubleClickClassified ==
    [][ev'.op = "mouse_input_callback" =>
         LET v == ev'.vis
             e == events[ev'.vis]
             e2 == events'[ev'.vis]
             dt == now' - events[ev'.vis].last_left_click_time
         IN  IF ev'.args[1] = "left" /\ ev'.args[2] = "press"
               THEN /\ IF dt > LIGHTVIS_DOUBLE_CLICK_MIN_DT /\ dt < LIGHTVIS_DOUBLE_CLICK_MAX_DT
                         THEN /\ e2.double_click
                              /\ e2.double_click_position = ev'.args[3]
                         ELSE e2 = [e EXCEPT !.last_left_click_time = now']
                    /\ clicks[v].fresh => e2 = [e EXCEPT !.last_left_click_time = now']
               ELSE e2 = e]_vars

\* C28: double-clicks never overlap.  A left press that is classified as a
\* double-click resets the last-click time, so the left press after it is
\* never a double-click, whatever its timing; and of k left presses that
\* each follow the previous one within the double-click window, exactly
\* floor(k/2) are detected as double-clicks.
C28_NoOverlap ==
    [][(ev'.op = "mouse_input_callback" /\ ev'.args[1] = "left" /\ ev'.args[2] = "press") =>
         LET v == ev'.vis
             e == events[ev'.vis]
             e2 == events'[ev'.vis]
             dt == now' - events[ev'.vis].last_left_click_time
         IN  /\ (dt > LIGHTVIS_DOUBLE_CLICK_MIN_DT /\ dt < LIGHTVIS_DOUBLE_CLICK_MAX_DT)
                  => e2.last_left_click_time = LongAgo
             /\ e.last_left_click_time = LongAgo
                  => e2 = [e EXCEPT !.last_left_click_time = now']
             /\ clicks'[v].dc = clicks'[v].chain \div 2]_vars

\* Four left presses in a row, each within the window of the one before,
\* gave two double-clicks.
C28_Witness == \E v \in Vis : clicks[v].chain = 4 /\ clicks[v].dc = 2

\* C29: the character queue of a window never holds more than NK_INPUT_MAX
\* code points.  character_input_callback appends the code point while the
\* queue is shorter than that and drops it otherwise, leaving the queue as
\* it was, so the accepted code points stay in arrival order.
C29_QueueBounded ==
    /\ [](\A v \in Vis : Len(events[v].characters) <= NK_INPUT_MAX)
    /\ [][ev'.op = "character_input_callback" =>
            LET q == events[ev'.vis].characters
                q2 == events'[ev'.vis].characters
            IN  IF Len(q) < NK_INPUT_MAX THEN q2 = Append(q, ev'.args[1]) ELSE q2 = q]_vars

\* The queue is full and the code point that arrived last was dropped.
C29_Witness ==
    /\ ev.op = "character_input_callback"
    /\ Len(events[ev.vis].characters) = NK_INPUT_MAX
    /\ events[ev.vis].characters[NK_INPUT_MAX] # ev.args[1]

\* The draw calls match the records: one call per record with non-empty
\* data, in insertion order, with the record's mode, data.size() vertices
\* and the colours the record asks for.
DrawsRecords(calls, records) ==
    LET drawn == Ascending({k \in 1..Len(records) : points[records[k].data] # 0})
    IN  /\ Len(calls) = Len(drawn)
        /\ \A j \in 1..Len(calls) :
             LET record == records[drawn[j]] IN
             /\ calls[j].record = drawn[j]
             /\ calls[j].mode = IF record.is_trajectory THEN "GL_LINE_STRIP" ELSE "GL_POINTS"
             /\ calls[j].data = record.data
             /\ calls[j].count = points[record.data]
             /\ Len(calls[j].colors) = points[record.data]
             /\ \A i \in 1..calls[j].count :
                  IF record.color # NULL
                    THEN calls[j].colors[i] = SolidColor(record.color)
                    ELSE i <= Len(palette[record.colors]) =>
                           calls[j].colors[i] = palette[record.colors][i]

\* C30: draw_positions draws every record with non-empty data in insertion
\* order, as a line strip for a trajectory and as points otherwise, with
\* data.size() vertices, and skips the records with empty data; vertex i of
\* a record with per-vertex colours gets colors[i], every vertex of a
\* single-colour record gets that colour; and whatever the lengths of the
\* data and colors vectors, nothing is read or written outside the colour
\* buffer of data.size() elements.
C30_PositionsDrawn ==
    [][ev'.op = "render_canvas" =>
         /\ DrawsRecords(gl'.positions, position_records[cur])
         /\ ~gl'.overrun
         /\ pc' # "crashed"]_vars

====
